---- MODULE Spec2Model ----
(***************************************************************************)
(* Model of the backtest engines of alphafactory.                          *)
(*                                                                         *)
(*   pe : a PortfolioBacktestEngine (src/src/backtest/portfolio_engine.py) *)
(*   ee : an EnhancedBacktestEngine                                        *)
(*        (src/src/backtest/enhanced_backtest_engine.py), driven by an     *)
(*        AdvancedStrategy (src/src/strategies/strategy_base.py)           *)
(*  stm : an STM_MeanReversion (src/src/strategies/stm.py), asked by its   *)
(*        caller whether to exit the position the caller holds            *)
(*                                                                         *)
(* Money is exact fixed point.  The engine parameters are dyadic           *)
(* fractions (slippage_pct = 1/SlipDen, commission_pct = 1/CommDen,        *)
(* reserve_cash_pct = 1/ResDen), commission_per_trade, initial_capital and *)
(* the prices are whole dollars, so every float the Python code            *)
(* computes on these inputs is exact, and is an integer number of ticks,   *)
(* one tick being 1/Unit dollars, Unit = SlipDen * CommDen.  Quotients     *)
(* that are not tick multiples (pnl_pct, drawdown, daily return,           *)
(* available capital) are kept as numerator/denominator pairs.             *)
(***************************************************************************)
EXTENDS Integers, Sequences, FiniteSets, TLC

VARIABLES
    running,    \* which engine object this behaviour drives
    pe,         \* the PortfolioBacktestEngine instance (its attributes)
    ee,         \* the EnhancedBacktestEngine instance (its attributes)
    run,        \* where run_backtest stands: phase, bar, signal, strategy
    today,      \* date of the bar the caller is processing (day number)
    last,       \* the call that has just returned: arguments, locals, result
    hist,       \* per symbol, how many opens succeeded and how many closes did
    nops,       \* number of calls made so far
    stm,        \* the STM_MeanReversion instance (its attributes)
    feed        \* its caller: the data frame so far and the position held

vars == <<running, pe, ee, run, today, last, hist, nops, stm, feed>>

----------------------------------------------------------------------------
(* Parameters of the run *)

SlipDen == 256          \* slippage_pct = 1/256
CommDen == 256          \* commission_pct = 1/256
ResDen == 16            \* reserve_cash_pct = 1/16
FixedCommission == 1    \* commission_per_trade, dollars

Unit == SlipDen * CommDen                   \* ticks per dollar
commission_per_trade == FixedCommission * Unit

Symbols == {"A", "B"}
Prices == {8, 16}                       \* signal prices, whole dollars
ShareChoices == {0, 1, 3, 40}           \* share counts a caller asks for
MaxPositionsChoices == {1, 2}           \* max_positions of the engine
CapitalChoices == {9, 24, 512}           \* initial_capital, dollars
StopPrices == {7}                       \* stop_price argument, dollars
ExitReasons == {"Stop Loss"}

MaxOps == 4             \* calls per behaviour
MaxDay == 2             \* last bar date

\* EnhancedBacktestEngine and its strategy: slippage_pct = 1/ESlipDen,
\* commission_pct = 1/ECommDen, stop_loss_pct = take_profit_pct =
\* trailing_stop_pct = 1/StopDen where set, the cash buffer 0.95 =
\* BufferNum/BufferDen.  One tick is 1/EUnit dollars: fine enough for a
\* stop price filled with slippage and charged commission.
ESlipDen == 16
ECommDen == 16
StopDen == 4
BufferNum == 19
BufferDen == 20
ECapital == 64          \* initial_capital, dollars
EUnit == ESlipDen * StopDen * ESlipDen * ECommDen

PriceLevels == {8, 16, 24}              \* bar prices, whole dollars
Signals == {0, 1, -1, 2, -2}            \* SignalType values
RunSymbols == {"A"}                     \* the symbol argument of a run
MaxBars == 2            \* len(data) at most
MaxRuns == 2            \* run_backtest calls per behaviour

\* STM_MeanReversion: stop_loss_pct = 1/StmStopDen, trailing_stop_pct =
\* 1/StmTrailDen, rsi_exit_threshold = RsiExit; one tick is 1/SUnit dollars.
StmStopDen == 4
StmTrailDen == 8
RsiExit == 50
SUnit == StmStopDen * StmTrailDen

Lows == {8, 15}                         \* row['low'], dollars
Highs == {15, 16}                       \* row['high'], dollars
Closes == {15}                          \* row['close'], dollars
Indicators == {<<32, 40>>, <<8, 60>>}   \* (bb_middle, rsi_14) of a row
Gaps == {1, 2}                          \* days from one row to the next
EntryPrices == {16}                     \* entry_price argument, dollars
MaxHoldChoices == {1, 2}                \* max_hold_days of the strategy
MaxRows == 2            \* len(data) at most
\* BacktestEngine: commission_pct = 1/BCommDen, slippage_pct =
\* BSlipNum/BSlipDen, initial_capital = BCapital dollars; cash, holdings and
\* equity are in ticks of 1/BUnit dollars, positions in ticks of 1/BUnit
\* shares, prices in whole dollars.
BCommDen == 4
BSlipNum == 0
BSlipDen == 16
BCapital == 64
BUnit == Unit                           \* the resolution of the ledger's ticks
ClosePrices == {1, 2}                   \* the close column
SignalValues == {-1, 0, 1, 2}           \* the signal column
SizeDens == {1, 2}                      \* position_size = 1/SizeDen
MaxLen == 4             \* len(df) at most

MaxCalls == 5           \* calls of the caller that reads the metrics
MaxEvals == 3           \* generate_exit_signals calls per behaviour

----------------------------------------------------------------------------
(* Arithmetic helpers *)

None == <<>>
Some(x) == <<x>>

Max(a, b) == IF a >= b THEN a ELSE b

\* a/b > c/d for a, c >= 0 and b, d > 0, without forming the cross products
RECURSIVE FracGT(_, _, _, _)
FracGT(a, b, c, d) ==
    LET qa == a \div b
        qc == c \div d
        ra == a % b
        rc == c % d
    IN  IF qa # qc THEN qa > qc
        ELSE IF ra = 0 THEN FALSE
        ELSE IF rc = 0 THEN TRUE
        ELSE FracGT(d, rc, b, ra)

\* sum of f[x] over the domain of f
RECURSIVE SumOver(_, _)
SumOver(f, S) ==
    IF S = {} THEN 0
    ELSE LET x == CHOOSE y \in S : TRUE
         IN  f[x] + SumOver(f, S \ {x})

----------------------------------------------------------------------------
(* PortfolioBacktestEngine *)

\* a fill at the signal price: the slippage forgotten
EntrySlippage_none(price) == price * SlipDen * CommDen

\* price * (1 + slippage_pct), in ticks, for a price in dollars
EntrySlippage(price) == price * (SlipDen + 1) * CommDen

\* the exit filled with the entry's sign of slippage
ExitSlippage_as_entry(price) == price * (SlipDen + 1) * CommDen

\* price * (1 - slippage_pct), in ticks
ExitSlippage(price) == price * (SlipDen - 1) * CommDen

\* the percentage alone, without the fixed floor
Commission_pct_only(self, value) == value \div CommDen

\* max(commission_per_trade, value * commission_pct); value is a multiple
\* of CommDen ticks, so the product is exact
Commission(self, value) ==
    Max(self.commission_per_trade, value \div CommDen)

\* the limit compared with <= instead of <
can_open_position_upto(self) ==
    Cardinality(DOMAIN self.positions) <= self.max_positions

\* len(self.positions) < self.max_positions
can_open_position(self) ==
    Cardinality(DOMAIN self.positions) < self.max_positions

\* max(0, cash - equity * reserve_cash_pct), times ResDen
get_available_capital(self) ==
    Max(0, self.cash * ResDen - self.equity)

\* Position.update
PositionUpdate(position, current_price) ==
    [position EXCEPT
        !.current_value = current_price * Unit * position.shares,
        !.unrealized_pnl = current_price * Unit * position.shares
                           - position.entry_value]

\* What a call hands back: the engine after it, and the call's locals
Outcome(self, op, symbol, price, shares, ret, filled, value, commission, amount, resized, available) ==
    [self |-> self, op |-> op, symbol |-> symbol, price |-> price,
     shares |-> shares, ret |-> ret, filled |-> filled, value |-> value,
     commission |-> commission, amount |-> amount, resized |-> resized,
     available |-> available]

\* a rejection that has already charged the fixed commission
OpenRejected_charged(self, symbol, entry_price, shares, resized, available) ==
    Outcome([self EXCEPT !.cash = self.cash - self.commission_per_trade],
            "open", symbol, entry_price, shares, "False", 0, 0, 0, 0,
            resized, available)

\* open_position's "return False": nothing has been touched
OpenRejected(self, symbol, entry_price, shares, resized, available) ==
    Outcome(self, "open", symbol, entry_price, shares, "False", 0, 0, 0, 0,
            resized, available)

\* a failed close that has already charged the fixed commission
CloseRejected_charged(self, symbol, exit_price) ==
    Outcome([self EXCEPT !.cash = self.cash - self.commission_per_trade],
            "close", symbol, exit_price, 0, "False", 0, 0, 0, 0, FALSE, -1)

\* close_position's "return False"
CloseRejected(self, symbol, exit_price) ==
    Outcome(self, "close", symbol, exit_price, 0, "False", 0, 0, 0, 0,
            FALSE, -1)

\* the duplicate check left out
AlreadyHeld_never(self, symbol) == FALSE

\* "if symbol in self.positions" at the head of open_position
AlreadyHeld(self, symbol) == symbol \in DOMAIN self.positions

\* the lines after the capital check: deduct cash, insert the Position
OpenFill(self, symbol, entry_date, entry_price, asked, shares, stop_price, resized, available) ==
    LET actual_entry_price == EntrySlippage(entry_price)
        position_value == actual_entry_price * shares
        commission == Commission(self, position_value)
        total_cost == position_value + commission
        position == [symbol |-> symbol, entry_date |-> entry_date,
                     entry_price |-> actual_entry_price, shares |-> shares,
                     stop_price |-> stop_price * Unit,
                     entry_value |-> position_value,
                     current_value |-> 0, unrealized_pnl |-> 0]
    IN  Outcome([self EXCEPT !.cash = self.cash - total_cost,
                             !.positions = (symbol :> position)
                                           @@ self.positions],
                "open", symbol, entry_price, asked, "True", shares,
                position_value, commission, total_cost, resized, available)

\* shares = int(available / (actual_entry_price * (1 + commission_pct)))
ResizedShares(available, entry_price) ==
    available \div (ResDen * entry_price * (SlipDen + 1) * (CommDen + 1))

\* available < position_value * 0.5
BelowHalf(available, position_value) ==
    available < position_value * (ResDen \div 2)

open_position(self, symbol, entry_date, entry_price, shares, stop_price) ==
    LET actual_entry_price == EntrySlippage(entry_price)
        position_value == actual_entry_price * shares
        commission == Commission(self, position_value)
        total_cost == position_value + commission
        available == get_available_capital(self)
        resized == ResizedShares(available, entry_price)
    IN  IF AlreadyHeld(self, symbol)
        THEN OpenRejected(self, symbol, entry_price, shares, FALSE, -1)
        ELSE IF ~can_open_position(self)
        THEN OpenRejected(self, symbol, entry_price, shares, FALSE, -1)
        ELSE IF total_cost > self.cash
        THEN IF BelowHalf(available, position_value)
             THEN OpenRejected(self, symbol, entry_price, shares, TRUE,
                               available)
             ELSE IF resized = 0
             THEN OpenRejected(self, symbol, entry_price, shares, TRUE,
                               available)
             ELSE OpenFill(self, symbol, entry_date, entry_price, shares,
                           resized, stop_price, TRUE, available)
        ELSE OpenFill(self, symbol, entry_date, entry_price, shares, shares,
                      stop_price, FALSE, -1)

\* pnl / entry_value, kept as the pair <<pnl, entry_value>>
Ratio(num, den) == <<num, den>>

\* the closed position left in the ledger
Remaining_kept(positions, symbol) == positions

\* "del self.positions[symbol]"
Remaining(positions, symbol) ==
    [s \in DOMAIN positions \ {symbol} |-> positions[s]]

close_position(self, symbol, exit_date, exit_price, exit_reason) ==
    IF symbol \notin DOMAIN self.positions
    THEN CloseRejected(self, symbol, exit_price)
    ELSE
    LET position == self.positions[symbol]
        actual_exit_price == ExitSlippage(exit_price)
        exit_value == actual_exit_price * position.shares
        commission == Commission(self, exit_value)
        net_proceeds == exit_value - commission
        credited == [self EXCEPT !.cash = self.cash + net_proceeds]
        pnl == net_proceeds - position.entry_value
        trade == [symbol |-> symbol,
                  entry_date |-> position.entry_date,
                  exit_date |-> exit_date,
                  entry_price |-> position.entry_price,
                  exit_price |-> actual_exit_price,
                  shares |-> position.shares,
                  pnl |-> pnl,
                  pnl_pct |-> Ratio(pnl, position.entry_value),
                  exit_reason |-> exit_reason,
                  hold_days |-> exit_date - position.entry_date,
                  entry_value |-> position.entry_value,
                  exit_value |-> exit_value]
    IN  IF position.entry_value = 0
        THEN \* pnl / entry_value raises ZeroDivisionError after the credit
             Outcome(credited, "close", symbol, exit_price, 0,
                     "ZeroDivisionError", position.shares, exit_value,
                     commission, net_proceeds, FALSE, -1)
        ELSE Outcome([credited EXCEPT
                        !.closed_trades = Append(self.closed_trades, trade),
                        !.positions = Remaining(self.positions, symbol)],
                     "close", symbol, exit_price, 0, "True", position.shares,
                     exit_value, commission, net_proceeds, FALSE, -1)

\* the positions update_equity revalues: those with a price in the call
Priced(self, current_prices) ==
    DOMAIN self.positions \cap DOMAIN current_prices

\* a peak that follows the latest equity down as well as up
PeakEquity_latest(peak_equity, equity) == equity

\* if self.equity > self.peak_equity: self.peak_equity = self.equity
PeakEquity(peak_equity, equity) ==
    IF equity > peak_equity THEN equity ELSE peak_equity

\* an equity curve that keeps its latest sample only
RecordSample_latest_only(equity_curve, sample) == <<sample>>

\* self.equity_curve.append((current_date, self.equity, self.cash))
RecordSample(equity_curve, sample) == Append(equity_curve, sample)

update_equity(self, current_date, current_prices) ==
    LET updated == [s \in DOMAIN self.positions |->
                      IF s \in DOMAIN current_prices
                      THEN PositionUpdate(self.positions[s], current_prices[s])
                      ELSE self.positions[s]]
        value == [s \in Priced(self, current_prices) |->
                      updated[s].current_value]
        position_value == SumOver(value, DOMAIN value)
        equity == self.cash + position_value
        peak_equity == PeakEquity(self.peak_equity, equity)
        current_drawdown == Ratio(peak_equity - equity, peak_equity)
        max_drawdown ==
            IF FracGT(current_drawdown[1], current_drawdown[2],
                      self.max_drawdown[1], self.max_drawdown[2])
            THEN current_drawdown ELSE self.max_drawdown
        equity_curve == RecordSample(self.equity_curve,
                                     <<current_date, equity, self.cash>>)
        prev_equity == self.equity_curve[Len(self.equity_curve)][2]
        recorded == [self EXCEPT !.positions = updated,
                                 !.equity = equity,
                                 !.peak_equity = peak_equity,
                                 !.max_drawdown = max_drawdown,
                                 !.equity_curve = equity_curve]
    IN  IF Len(equity_curve) > 1
        THEN IF prev_equity = 0
             THEN Outcome(recorded, "update", "", 0, 0, "ZeroDivisionError",
                          0, position_value, 0, equity, FALSE, -1)
             ELSE Outcome([recorded EXCEPT !.daily_returns =
                             Append(self.daily_returns,
                                    Ratio(equity - prev_equity, prev_equity))],
                          "update", "", 0, 0, "None", 0, position_value, 0,
                          equity, FALSE, -1)
        ELSE Outcome(recorded, "update", "", 0, 0, "None", 0, position_value,
                     0, equity, FALSE, -1)

\* a daily return as a fraction with a positive denominator
Signed(r) == IF r[2] < 0 THEN <<-r[1], -r[2]>> ELSE r

\* r < 0 for a daily return
IsNegative(r) == Signed(r)[1] < 0

\* two daily returns are the same number
SameReturn(r, q) ==
    LET a == Signed(r)
        b == Signed(q)
    IN  IF a[1] < 0 /\ b[1] < 0
        THEN /\ ~FracGT(-a[1], a[2], -b[1], b[2])
             /\ ~FracGT(-b[1], b[2], -a[1], a[2])
        ELSE IF a[1] < 0 \/ b[1] < 0 THEN FALSE
        ELSE /\ ~FracGT(a[1], a[2], b[1], b[2])
             /\ ~FracGT(b[1], b[2], a[1], a[2])

\* np.std(returns) > 0: the returns are not all the same number
Spread(returns) ==
    \E i, j \in DOMAIN returns : ~SameReturn(returns[i], returns[j])

\* the keys of the dictionary get_performance_metrics returns for an engine
\* with closed trades
PortfolioMetricKeys ==
    {"start_date", "end_date", "days", "years", "initial_capital",
     "final_equity", "total_return_pct", "annual_return_pct", "sharpe_ratio",
     "sortino_ratio", "calmar_ratio", "max_drawdown_pct", "total_trades",
     "winning_trades", "losing_trades", "win_rate_pct", "profit_factor",
     "avg_win", "avg_loss", "total_wins", "total_losses", "avg_hold_days",
     "trades", "equity_curve"}

\* sqrt(252) * mean / std of the daily returns, as far as the ledger in
\* ticks decides it: "0", "positive" (no negative return and a positive
\* deviation: the ratio is at least sqrt(252 / (n - 1))), or "float" for a
\* value that the mean of mixed returns decides
SharpeRatio(daily_returns) ==
    IF Len(daily_returns) > 1
    THEN IF Spread(daily_returns)
         THEN IF \E i \in DOMAIN daily_returns : IsNegative(daily_returns[i])
              THEN "float" ELSE "positive"
         ELSE "0"
    ELSE "0"

\* the Sortino ratio: the Sharpe ratio stands in when no return is negative
SortinoRatio(daily_returns, sharpe_ratio) ==
    LET downside_returns == SelectSeq(daily_returns, IsNegative)
    IN  IF Len(daily_returns) > 1
        THEN IF downside_returns # <<>>
             THEN IF Spread(downside_returns) THEN "float" ELSE "0"
             ELSE sharpe_ratio
        ELSE "0"

\* "Annualized return": 0 when the equity curve spans no day; otherwise the
\* power (1 + total_return) ** (1 / years), whose exponent 365.25 / days is
\* never a whole number, so that a negative base (equity < 0, the capital
\* being positive) makes it a complex number.  The bases reached here stay
\* far below the 6.98 at which the power overflows over one day.
AnnualReturn(self) ==
    LET start_date == self.equity_curve[1][1]
        end_date == self.equity_curve[Len(self.equity_curve)][1]
    IN  IF end_date - start_date > 0
        THEN IF self.equity < 0 THEN "complex" ELSE "float"
        ELSE "0"

\* what get_performance_metrics gives when it raises
MetricsRaised(error) ==
    [ret |-> error, keys |-> {}, error |-> None, total_trades |-> None,
     sharpe_ratio |-> None, sortino_ratio |-> None]

\* PortfolioBacktestEngine.get_performance_metrics: the keys of the
\* returned dictionary, the trade count and the two ratios above; the other
\* entries are rounded floats and are carried by key only.  round() of a
\* complex annual return raises TypeError.
get_performance_metrics(self) ==
    IF self.closed_trades = <<>>
    THEN [ret |-> "None", keys |-> {"error"},
          error |-> Some("No closed trades"), total_trades |-> None,
          sharpe_ratio |-> None, sortino_ratio |-> None]
    ELSE IF self.equity_curve = <<>>
    THEN MetricsRaised("IndexError")
    ELSE IF AnnualReturn(self) = "complex"
    THEN MetricsRaised("TypeError")
    ELSE LET sharpe_ratio == SharpeRatio(self.daily_returns)
         IN  [ret |-> "None", keys |-> PortfolioMetricKeys, error |-> None,
              total_trades |-> Some(Len(self.closed_trades)),
              sharpe_ratio |-> Some(sharpe_ratio),
              sortino_ratio |->
                Some(SortinoRatio(self.daily_returns, sharpe_ratio))]

\* PortfolioBacktestEngine.__init__
PortfolioEngine(initial_capital, max_positions) ==
    [initial_capital |-> initial_capital,
     commission_per_trade |-> commission_per_trade,
     max_positions |-> max_positions,
     cash |-> initial_capital,
     equity |-> initial_capital,
     positions |-> <<>>,
     closed_trades |-> <<>>,
     equity_curve |-> <<>>,
     daily_returns |-> <<>>,
     peak_equity |-> initial_capital,
     max_drawdown |-> Ratio(0, 1)]

----------------------------------------------------------------------------
(* AdvancedStrategy *)

\* Python truth of an Optional[float]: neither None nor 0
Truthy(opt) == opt # None /\ opt[1] # 0

\* int(a / b) for b > 0: truncation towards zero
TruncDiv(a, b) == IF a >= 0 THEN a \div b ELSE -((-a) \div b)

\* The strategies a run may be given.  size_den and max_den are the
\* denominators of position_size_pct and max_position_size; the three flags
\* say which of stop_loss_pct, take_profit_pct, trailing_stop_pct are set.
\* stop_prices is the dict __init__ creates; no method writes to it.
Strategy(size_den, max_den, stop_loss, take_profit, trailing) ==
    [size_den |-> size_den, max_den |-> max_den, stop_loss |-> stop_loss,
     take_profit |-> take_profit, trailing |-> trailing,
     stop_prices |-> <<>>]

StrategyChoices ==
    { Strategy(4, 4, TRUE, TRUE, FALSE),
      Strategy(1, 1, TRUE, FALSE, TRUE),
      Strategy(1, 1, FALSE, FALSE, FALSE) }

\* FIXED sizing: int(min(equity * position_size_pct / price,
\*                       equity * max_position_size / price))
calculate_position_size(strategy, price, equity) ==
    IF equity * strategy.max_den <= equity * strategy.size_den
    THEN TruncDiv(equity, strategy.size_den * price)
    ELSE TruncDiv(equity, strategy.max_den * price)

\* (stop_price, take_profit_price) for use_atr_stops = False
calculate_stops(strategy, entry_price, direction) ==
    IF direction = 1
    THEN << IF strategy.stop_loss
            THEN Some((entry_price * (StopDen - 1)) \div StopDen) ELSE None,
            IF strategy.take_profit
            THEN Some((entry_price * (StopDen + 1)) \div StopDen) ELSE None >>
    ELSE << IF strategy.stop_loss
            THEN Some((entry_price * (StopDen + 1)) \div StopDen) ELSE None,
            IF strategy.take_profit
            THEN Some((entry_price * (StopDen - 1)) \div StopDen) ELSE None >>

update_trailing_stop(strategy, symbol, current_price, direction) ==
    IF ~strategy.trailing \/ symbol \notin DOMAIN strategy.stop_prices
    THEN None
    ELSE LET current_stop == strategy.stop_prices[symbol]
             up == (current_price * (StopDen - 1)) \div StopDen
             down == (current_price * (StopDen + 1)) \div StopDen
         IN  IF direction = 1 /\ up > current_stop THEN Some(up)
             ELSE IF direction = -1 /\ down < current_stop THEN Some(down)
             ELSE Some(current_stop)

----------------------------------------------------------------------------
(* EnhancedBacktestEngine *)

\* Trade.__init__
Trade(symbol, entry_date, entry_price, shares, direction, stop_price, take_profit_price) ==
    [symbol |-> symbol, entry_date |-> entry_date,
     entry_price |-> entry_price, shares |-> shares,
     direction |-> direction, stop_price |-> stop_price,
     take_profit_price |-> take_profit_price,
     exit_date |-> None, exit_price |-> None, exit_reason |-> None,
     pnl |-> None, pnl_pct |-> None,
     mae |-> Ratio(0, entry_price), mfe |-> Ratio(0, entry_price)]

\* Trade.close
TradeClose(trade, exit_date, exit_price, reason) ==
    LET move == IF trade.direction = 1
                THEN exit_price - trade.entry_price
                ELSE trade.entry_price - exit_price
    IN  [trade EXCEPT !.exit_date = Some(exit_date),
                      !.exit_price = Some(exit_price),
                      !.exit_reason = Some(reason),
                      !.pnl = Some(move * trade.shares),
                      !.pnl_pct = Some(Ratio(move, trade.entry_price))]

\* Trade.update_mae_mfe; both ratios keep the denominator entry_price
update_mae_mfe(trade, current_price) ==
    LET excursion == IF trade.direction = 1
                     THEN current_price - trade.entry_price
                     ELSE trade.entry_price - current_price
    IN  [trade EXCEPT
            !.mfe = Ratio(Max(trade.mfe[1], excursion), trade.entry_price),
            !.mae = Ratio(-Max(-trade.mae[1], -excursion),
                          trade.entry_price)]

\* a reset that keeps the trades of the run before
E_reset_keeps_trades(self) ==
    [self EXCEPT !.equity = self.initial_capital,
                 !.cash = self.initial_capital,
                 !.positions = <<>>,
                 !.equity_curve = <<>>]

\* EnhancedBacktestEngine.reset
E_reset(self) ==
    [self EXCEPT !.equity = self.initial_capital,
                 !.cash = self.initial_capital,
                 !.positions = <<>>,
                 !.closed_trades = <<>>,
                 !.equity_curve = <<>>]

\* EnhancedBacktestEngine.__init__
EnhancedEngine ==
    E_reset([initial_capital |-> ECapital * EUnit,
             check_intrabar_stops |-> TRUE,
             equity |-> 0, cash |-> 0, positions |-> <<>>,
             closed_trades |-> <<>>, equity_curve |-> <<>>])

\* price * (1 + slippage_pct * direction)
E_EntryPrice(price, direction) ==
    (price * (ESlipDen + direction)) \div ESlipDen

\* an exit that slips the way an entry does
E_ExitPrice_as_entry(price, direction) ==
    (price * (ESlipDen + direction)) \div ESlipDen

\* price * (1 - slippage_pct * direction)
E_ExitPrice(price, direction) ==
    (price * (ESlipDen - direction)) \div ESlipDen

\* value * commission_pct
E_Commission(value) == value \div ECommDen

\* int(cash * 0.95 / (entry_price * (1 + commission_pct)))
E_ResizedShares(cash, entry_price) ==
    TruncDiv(cash * BufferNum * ECommDen,
             BufferDen * entry_price * (ECommDen + 1))

E_Fill(self, symbol, date, entry_price, shares, direction, stops) ==
    LET position_cost == entry_price * shares
        commission == E_Commission(position_cost)
        total_cost == position_cost + commission
    IN  [self |-> [self EXCEPT
                     !.cash = self.cash - total_cost,
                     !.positions = (symbol :> Trade(symbol, date, entry_price,
                                        shares, direction, stops[1], stops[2]))
                                   @@ self.positions],
         opened |-> TRUE]

\* an entry that opens nothing and still takes a tick of cash
E_NoFill_charged(self) ==
    [self |-> [self EXCEPT !.cash = self.cash - 1], opened |-> FALSE]

\* if shares <= 0: return
E_NoFill(self) == [self |-> self, opened |-> FALSE]

E_open_position(self, symbol, date, price, direction, strategy) ==
    LET shares == calculate_position_size(strategy, price, self.equity)
        entry_price == E_EntryPrice(price, direction)
        stops == calculate_stops(strategy, entry_price, direction)
        position_cost == entry_price * shares
        total_cost == position_cost + E_Commission(position_cost)
        resized == E_ResizedShares(self.cash, entry_price)
    IN  IF shares <= 0 THEN E_NoFill(self)
        ELSE IF total_cost > self.cash
        THEN IF resized <= 0 THEN E_NoFill(self)
             ELSE E_Fill(self, symbol, date, entry_price, resized, direction,
                         stops)
        ELSE E_Fill(self, symbol, date, entry_price, shares, direction, stops)

E_close_position(self, symbol, date, price, reason) ==
    IF symbol \notin DOMAIN self.positions THEN self
    ELSE
    LET position == self.positions[symbol]
        exit_price == E_ExitPrice(price, position.direction)
        closed == TradeClose(position, date, exit_price, reason)
        proceeds == exit_price * position.shares
        commission == E_Commission(proceeds)
        net_proceeds == proceeds - commission
        original_value == position.entry_price * position.shares
        profit == (position.entry_price - exit_price) * position.shares
    IN  [self EXCEPT
           !.cash = IF position.direction = 1
                    THEN self.cash + net_proceeds
                    ELSE self.cash + original_value + profit - commission,
           !.closed_trades = Append(self.closed_trades, closed),
           !.positions = [s \in DOMAIN self.positions \ {symbol}
                             |-> self.positions[s]]]

\* mark-to-market of one open trade at the bar's close
E_MarkToMarket(position, price) ==
    IF position.direction = 1 THEN price * position.shares
    ELSE position.entry_price * position.shares
         + (position.entry_price - price) * position.shares

\* an equity update that records its sample twice
E_update_equity_twice(self, date, price) ==
    [self EXCEPT !.equity_curve = Append(Append(@, <<date, self.equity>>),
                                         <<date, self.equity>>)]

E_update_equity(self, date, price) ==
    LET value == [s \in DOMAIN self.positions |->
                     E_MarkToMarket(self.positions[s], price)]
        equity == self.cash + SumOver(value, DOMAIN value)
    IN  [self EXCEPT !.equity = equity,
                     !.equity_curve = Append(self.equity_curve,
                                             <<date, equity>>)]

\* an intrabar check that looks at the take-profit level first
StopHit_target_first(self, position, bar) ==
    LET stop == position.stop_price
        target == position.take_profit_price
    IN  IF ~self.check_intrabar_stops THEN None
        ELSE IF position.direction = 1
        THEN IF Truthy(target) /\ bar.high >= target[1]
             THEN Some("Take Profit")
             ELSE IF Truthy(stop) /\ bar.low <= stop[1]
             THEN Some("Stop Loss") ELSE None
        ELSE IF Truthy(target) /\ bar.low <= target[1]
             THEN Some("Take Profit")
             ELSE IF Truthy(stop) /\ bar.high >= stop[1]
             THEN Some("Stop Loss") ELSE None

\* an intrabar check that compares the levels with the bar's close only
StopHit_close_only(self, position, bar) ==
    LET stop == position.stop_price
        target == position.take_profit_price
    IN  IF ~self.check_intrabar_stops THEN None
        ELSE IF position.direction = 1
        THEN IF Truthy(stop) /\ bar.close <= stop[1]
             THEN Some("Stop Loss")
             ELSE IF Truthy(target) /\ bar.close >= target[1]
             THEN Some("Take Profit") ELSE None
        ELSE IF Truthy(stop) /\ bar.close >= stop[1]
             THEN Some("Stop Loss")
             ELSE IF Truthy(target) /\ bar.close <= target[1]
             THEN Some("Take Profit") ELSE None

\* "Check if stops hit during the bar": the reason of the close, if any
StopHit(self, position, bar) ==
    LET stop == position.stop_price
        target == position.take_profit_price
    IN  IF ~self.check_intrabar_stops THEN None
        ELSE IF position.direction = 1
        THEN IF Truthy(stop) /\ bar.low <= stop[1]
             THEN Some("Stop Loss")
             ELSE IF Truthy(target) /\ bar.high >= target[1]
             THEN Some("Take Profit") ELSE None
        ELSE IF Truthy(stop) /\ bar.high >= stop[1]
             THEN Some("Stop Loss")
             ELSE IF Truthy(target) /\ bar.low <= target[1]
             THEN Some("Take Profit") ELSE None

\* run_backtest, "Check existing positions for stops": the engine and the
\* signal after the block
\* the bar's signal processed although a stop was hit
SignalAfterStops_kept(reason, current_signal) == current_signal

\* "if stop_hit: current_signal = 0"
SignalAfterStops(reason, current_signal) ==
    IF reason = None THEN current_signal ELSE 0

E_check_stops(self, strategy, symbol, date, bar, current_signal) ==
    IF symbol \notin DOMAIN self.positions
    THEN [self |-> self, current_signal |-> current_signal, reason |-> None]
    ELSE
    LET position == update_mae_mfe(self.positions[symbol], bar.close)
        marked == [self EXCEPT !.positions[symbol] = position]
        stop == position.stop_price
        target == position.take_profit_price
        reason == StopHit(self, position, bar)
        exit_price == IF reason = Some("Stop Loss") THEN stop[1]
                      ELSE target[1]
        stopped == IF reason = None THEN marked
                   ELSE E_close_position(marked, symbol, date, exit_price,
                                         reason[1])
        new_stop == update_trailing_stop(strategy, symbol, bar.close,
                                         position.direction)
        trailed == IF symbol \in DOMAIN stopped.positions
                      /\ strategy.trailing /\ Truthy(new_stop)
                   THEN [stopped EXCEPT
                           !.positions[symbol].stop_price = new_stop]
                   ELSE stopped
    IN  [self |-> trailed,
         current_signal |-> SignalAfterStops(reason, current_signal),
         reason |-> reason]

\* "if symbol not in self.positions" before each _open_position call
MayOpen(self, symbol) == symbol \notin DOMAIN self.positions

\* a reversal that leaves the opposite position where it is
SignalReversal_skipped(self, symbol, date, bar, direction) == self

\* "Close any short position first" / "Close any long position first"
SignalReversal(self, symbol, date, bar, direction) ==
    IF symbol \in DOMAIN self.positions
       /\ self.positions[symbol].direction = -direction
    THEN E_close_position(self, symbol, date, bar.close, "Signal Reversal")
    ELSE self

\* run_backtest, "Process new signals"
E_process_signal(self, strategy, symbol, date, bar, current_signal) ==
    LET direction == current_signal
        reversed == SignalReversal(self, symbol, date, bar, direction)
    IN  IF current_signal \in {1, -1}
        THEN IF MayOpen(reversed, symbol)
             THEN E_open_position(reversed, symbol, date, bar.close,
                                  direction, strategy)
             ELSE [self |-> reversed, opened |-> FALSE]
        ELSE IF current_signal \in {2, -2}
                /\ symbol \in DOMAIN self.positions
                /\ self.positions[symbol].direction * 2 = current_signal
        THEN [self |-> E_close_position(self, symbol, date, bar.close,
                                        "Exit Signal"),
              opened |-> FALSE]
        ELSE [self |-> self, opened |-> FALSE]

\* an end of run that leaves the ledger as it is
E_close_all_none(self, syms, final_date, final_price) == self

\* run_backtest, "Close any remaining positions at end"
RECURSIVE E_close_all(_, _, _, _)
E_close_all(self, syms, final_date, final_price) ==
    IF syms = {} THEN self
    ELSE LET sym == CHOOSE x \in syms : TRUE
         IN  E_close_all(E_close_position(self, sym, final_date, final_price,
                                          "End of Backtest"),
                         syms \ {sym}, final_date, final_price)

\* the keys of the dictionary a run with trades returns
MetricKeys ==
    {"strategy_name", "symbol", "start_date", "end_date", "trading_days",
     "initial_capital", "final_equity", "total_return", "annual_return",
     "sharpe_ratio", "sortino_ratio", "calmar_ratio", "max_drawdown",
     "total_trades", "winning_trades", "losing_trades", "win_rate",
     "avg_win", "avg_loss", "profit_factor", "avg_mae", "avg_mfe",
     "trades", "equity_curve", "strategy_parameters"}

\* EnhancedBacktestEngine._calculate_performance: the keys of the returned
\* dictionary, and the entries that are exact in ticks; the statistics that
\* take a mean, a deviation or a root are carried by key only
E_calculate_performance(self) ==
    IF self.closed_trades = <<>>
    THEN [keys |-> {"error", "initial_capital", "final_equity"},
          error |-> Some("No trades executed"),
          initial_capital |-> self.initial_capital,
          final_equity |-> self.equity,
          total_trades |-> None]
    ELSE [keys |-> MetricKeys,
          error |-> None,
          initial_capital |-> self.initial_capital,
          final_equity |-> self.equity,
          total_trades |-> Some(Len(self.closed_trades))]

----------------------------------------------------------------------------
(* STM_MeanReversion *)

\* STM_MeanReversion.__init__
STM(max_hold_days, exit_at_bb_middle, exit_at_rsi_threshold, use_trailing_stop) ==
    [max_hold_days |-> max_hold_days,
     exit_at_bb_middle |-> exit_at_bb_middle,
     exit_at_rsi_threshold |-> exit_at_rsi_threshold,
     use_trailing_stop |-> use_trailing_stop,
     trailing_stops |-> <<>>]

\* data.index and data.loc[current_date]
Index(data) == {data[k].date : k \in 1 .. Len(data)}
Row(data, date) == data[CHOOSE k \in 1 .. Len(data) : data[k].date = date]

\* data.loc[entry_date:current_date, 'high'].max(), for a slice with a row
HighestSince(data, entry_date, current_date) ==
    LET highs == {data[k].high : k \in {j \in 1 .. Len(data) :
                     entry_date <= data[j].date /\ data[j].date <= current_date}}
    IN  CHOOSE h \in highs : \A g \in highs : g <= h

\* f"Max Hold ({self.max_hold_days} days)"
MaxHoldReason(self) == "Max Hold (" \o ToString(self.max_hold_days) \o " days)"

\* "5. Update trailing stop", with the stored stop overwritten every time
UpdateTrailing_overwrite(self, data, symbol, entry_date, current_date) ==
    IF ~self.use_trailing_stop THEN self
    ELSE [self EXCEPT !.trailing_stops =
            (symbol :> (HighestSince(data, entry_date, current_date)
                          * (StmTrailDen - 1)) \div StmTrailDen) @@ @]

\* "5. Update trailing stop"
UpdateTrailing(self, data, symbol, entry_date, current_date) ==
    LET highest_since_entry == HighestSince(data, entry_date, current_date)
        new_trailing_stop ==
            (highest_since_entry * (StmTrailDen - 1)) \div StmTrailDen
    IN  IF ~self.use_trailing_stop THEN self
        ELSE IF symbol \notin DOMAIN self.trailing_stops
                \/ new_trailing_stop > self.trailing_stops[symbol]
        THEN [self EXCEPT !.trailing_stops =
                             (symbol :> new_trailing_stop) @@ @]
        ELSE self

\* a hold limit that is reached only once it is exceeded
HoldExpired_strict(self, entry_date, current_date) ==
    current_date - entry_date > self.max_hold_days

\* "2. Maximum hold period": days_held >= self.max_hold_days
HoldExpired(self, entry_date, current_date) ==
    current_date - entry_date >= self.max_hold_days

\* the stop level of "1. Stop-loss check"
StmStop(self, symbol, entry_price) ==
    IF symbol \in DOMAIN self.trailing_stops
    THEN self.trailing_stops[symbol]
    ELSE (entry_price * (StmStopDen - 1)) \div StmStopDen

Verdict(self, should_exit, reason) ==
    [self |-> self, should_exit |-> should_exit, reason |-> reason]

\* STM_MeanReversion.generate_exit_signals, for entry_date <= current_date
generate_exit_signals(self, data, symbol, entry_date, entry_price, current_date) ==
    IF current_date \notin Index(data) THEN Verdict(self, FALSE, "")
    ELSE
    LET row == Row(data, current_date)
        stop_price == StmStop(self, symbol, entry_price)
    IN  IF row.low <= stop_price THEN Verdict(self, TRUE, "Stop Loss")
        ELSE IF HoldExpired(self, entry_date, current_date)
        THEN Verdict(self, TRUE, MaxHoldReason(self))
        ELSE IF self.exit_at_bb_middle /\ row.close >= row.bb_middle
        THEN Verdict(self, TRUE, "BB Middle (Take Profit)")
        ELSE IF self.exit_at_rsi_threshold /\ row.rsi_14 > RsiExit
        THEN Verdict(self, TRUE, "RSI > " \o ToString(RsiExit))
        ELSE Verdict(UpdateTrailing(self, data, symbol, entry_date,
                                    current_date),
                     FALSE, "")

----------------------------------------------------------------------------
(* The callers of the portfolio engine *)

Locals(r) == [f \in DOMAIN r \ {"self"} |-> r[f]]

NoCall == Locals(Outcome(<<>>, "init", "", 0, 0, "None", 0, 0, 0, 0,
                         FALSE, -1))

Count(h, symbol, ok) ==
    IF ok THEN [h EXCEPT ![symbol] = @ + 1] ELSE h

PriceDicts == UNION {[S -> Prices] : S \in SUBSET Symbols}

OpenPosition ==
    /\ running = "portfolio"
    /\ nops < MaxOps
    /\ \E symbol \in Symbols, price \in Prices, shares \in ShareChoices,
          stop_price \in StopPrices :
          LET r == open_position(pe, symbol, today, price, shares, stop_price)
          IN  /\ pe' = r.self
              /\ last' = Locals(r)
              /\ hist' = [hist EXCEPT
                            !.opened = Count(@, symbol, r.ret = "True")]
    /\ nops' = nops + 1
    /\ UNCHANGED <<running, ee, run, today, stm, feed>>

ClosePosition ==
    /\ running = "portfolio"
    /\ nops < MaxOps
    /\ \E symbol \in Symbols, price \in Prices, reason \in ExitReasons :
          LET r == close_position(pe, symbol, today, price, reason)
          IN  /\ pe' = r.self
              /\ last' = Locals(r)
              /\ hist' = [hist EXCEPT
                            !.closed = Count(@, symbol, r.ret = "True")]
    /\ nops' = nops + 1
    /\ UNCHANGED <<running, ee, run, today, stm, feed>>

\* the caller ends the bar: one update_equity, then the next date
UpdateEquity ==
    /\ running = "portfolio"
    /\ nops < MaxOps
    /\ today < MaxDay
    /\ \E current_prices \in PriceDicts :
          LET r == update_equity(pe, today, current_prices)
          IN  /\ pe' = r.self
              /\ last' = Locals(r)
    /\ today' = today + 1
    /\ nops' = nops + 1
    /\ UNCHANGED <<running, ee, run, hist, stm, feed>>

NoHistory == [opened |-> [s \in Symbols |-> 0],
              closed |-> [s \in Symbols |-> 0]]

\* A caller that trades one symbol in small lots, ends each day with
\* update_equity and reads the metrics
TradedSymbol == CHOOSE s \in Symbols : TRUE
LotChoices == {1, 3}

M_Open ==
    /\ running = "metrics"
    /\ nops < MaxCalls
    /\ \E price \in Prices, shares \in LotChoices, stop_price \in StopPrices :
          LET r == open_position(pe, TradedSymbol, today, price, shares,
                                 stop_price)
          IN  /\ pe' = r.self
              /\ last' = Locals(r)
              /\ hist' = [hist EXCEPT
                            !.opened = Count(@, TradedSymbol, r.ret = "True")]
    /\ nops' = nops + 1
    /\ UNCHANGED <<running, ee, run, today, stm, feed>>

M_Close ==
    /\ running = "metrics"
    /\ nops < MaxCalls
    /\ \E price \in Prices, reason \in ExitReasons :
          LET r == close_position(pe, TradedSymbol, today, price, reason)
          IN  /\ pe' = r.self
              /\ last' = Locals(r)
              /\ hist' = [hist EXCEPT
                            !.closed = Count(@, TradedSymbol, r.ret = "True")]
    /\ nops' = nops + 1
    /\ UNCHANGED <<running, ee, run, today, stm, feed>>

M_Update ==
    /\ running = "metrics"
    /\ nops < MaxCalls
    /\ \E current_prices \in PriceDicts :
          LET r == update_equity(pe, today, current_prices)
          IN  /\ pe' = r.self
              /\ last' = Locals(r)
    /\ today' = today + 1
    /\ nops' = nops + 1
    /\ UNCHANGED <<running, ee, run, hist, stm, feed>>

\* metrics = engine.get_performance_metrics()
GetMetrics ==
    /\ running = "metrics"
    /\ last.op # "metrics"
    /\ LET r == get_performance_metrics(pe)
       IN  last' = [op |-> "metrics", ret |-> r.ret, metrics |-> r]
    /\ UNCHANGED <<running, pe, ee, run, today, hist, nops, stm, feed>>

----------------------------------------------------------------------------
(* EnhancedBacktestEngine.run_backtest, one action per block of the loop *)

BarChoices ==
    {[high |-> h * EUnit, low |-> l * EUnit, close |-> c * EUnit] :
        <<h, l, c>> \in {t \in PriceLevels \X PriceLevels \X PriceLevels :
                            t[2] <= t[3] /\ t[3] <= t[1]}}

NoBar == [high |-> 0, low |-> 0, close |-> 0]

Idle == [pc |-> "idle", i |-> 0, symbol |-> "", strategy |-> <<>>,
         bar |-> NoBar, current_signal |-> 0, previous |-> None,
         results |-> None]

\* the engines whose bar loop is stepping
Backtesting == running \in {"enhanced", "rerun"}

ECall(op, symbol, price, ret) ==
    Locals(Outcome(<<>>, op, symbol, price, 0, ret, 0, 0, 0, 0, FALSE, -1))

\* closes recorded between two engine states, per symbol
Closed(h, before, after) ==
    [s \in Symbols |->
        h[s] + Cardinality({k \in Len(before.closed_trades) + 1
                                    .. Len(after.closed_trades) :
                               after.closed_trades[k].symbol = s})]

\* run_backtest is called: reset(), then the loop starts
RunBacktest ==
    /\ running = "enhanced"
    /\ run.pc \in {"idle", "done"}
    /\ nops < MaxRuns
    /\ \E strategy \in StrategyChoices, symbol \in RunSymbols :
          run' = [Idle EXCEPT !.pc = "loop", !.symbol = symbol,
                              !.strategy = strategy]
    /\ ee' = E_reset(ee)
    /\ hist' = NoHistory
    /\ last' = ECall("run_backtest", run'.symbol, 0, "None")
    /\ nops' = nops + 1
    /\ UNCHANGED <<running, pe, today, stm, feed>>

\* for i in range(len(data)): the next row and its signal
NextBar ==
    /\ running = "enhanced"
    /\ run.pc = "loop"
    /\ run.i < MaxBars
    /\ \E bar \in BarChoices, signal \in Signals :
          run' = [run EXCEPT !.pc = "stops", !.bar = bar,
                             !.current_signal = signal]
    /\ UNCHANGED <<running, pe, ee, today, last, hist, nops, stm, feed>>

CheckStops ==
    /\ Backtesting
    /\ run.pc = "stops"
    /\ LET r == E_check_stops(ee, run.strategy, run.symbol, run.i, run.bar,
                              run.current_signal)
       IN  /\ ee' = r.self
           /\ run' = [run EXCEPT !.pc = "signal",
                                 !.current_signal = r.current_signal]
           /\ last' = ECall("check_stops", run.symbol, 0,
                            IF r.reason = None THEN "None" ELSE r.reason[1])
           /\ hist' = [hist EXCEPT !.closed = Closed(@, ee, r.self)]
    /\ UNCHANGED <<running, pe, today, nops, stm, feed>>

ProcessSignal ==
    /\ Backtesting
    /\ run.pc = "signal"
    /\ LET r == E_process_signal(ee, run.strategy, run.symbol, run.i,
                                 run.bar, run.current_signal)
       IN  /\ ee' = r.self
           /\ last' = ECall("process_signal", run.symbol, run.bar.close,
                            IF r.opened THEN "opened" ELSE "None")
           /\ hist' = [opened |-> Count(hist.opened, run.symbol, r.opened),
                       closed |-> Closed(hist.closed, ee, r.self)]
    /\ run' = [run EXCEPT !.pc = "equity"]
    /\ UNCHANGED <<running, pe, today, nops, stm, feed>>

RecordEquity ==
    /\ Backtesting
    /\ run.pc = "equity"
    /\ ee' = E_update_equity(ee, run.i, run.bar.close)
    /\ run' = [run EXCEPT !.pc = "loop", !.i = run.i + 1]
    /\ last' = ECall("update_equity", run.symbol, run.bar.close, "None")
    /\ UNCHANGED <<running, pe, today, hist, nops, stm, feed>>

\* the loop is over: close what is left at the last row's close
FinalClose ==
    /\ Backtesting
    /\ run.pc = "loop"
    /\ running = "rerun" => run.i = Len(feed.data)
    /\ ee' = E_close_all(ee, DOMAIN ee.positions, run.i - 1, run.bar.close)
    /\ run' = [run EXCEPT !.pc = "done",
                          !.results = Some(E_calculate_performance(ee'))]
    /\ last' = ECall("final_close", run.symbol, run.bar.close, "None")
    /\ hist' = [hist EXCEPT !.closed = Closed(@, ee, ee')]
    /\ UNCHANGED <<running, pe, today, nops, stm, feed>>

\* the rows a caller hands to run_backtest a second time: a bar and the
\* signal the strategy generates for it
FrameRows ==
    {[bar |-> bar, signal |-> signal] :
        bar \in {b \in BarChoices : b.low = 8 * EUnit /\ b.high = 24 * EUnit},
        signal \in {1, -1, 2}}

RECURSIVE FramesOf(_)
FramesOf(n) ==
    IF n = 0 THEN {<<>>}
    ELSE {Append(data, row) : data \in FramesOf(n - 1), row \in FrameRows}

Frames == UNION {FramesOf(n) : n \in 1 .. MaxBars}

\* results = engine.run_backtest(strategy, data, symbol), once more on the
\* same engine, strategy and data; the caller keeps the run before
RunAgain ==
    /\ running = "rerun"
    /\ run.pc \in {"idle", "done"}
    /\ nops < MaxRuns
    /\ run' = [run EXCEPT !.pc = "loop", !.i = 0, !.bar = NoBar,
                          !.current_signal = 0,
                          !.previous = IF run.pc = "done"
                                       THEN Some([closed_trades |->
                                                    ee.closed_trades,
                                                  equity_curve |->
                                                    ee.equity_curve])
                                       ELSE None]
    /\ ee' = E_reset(ee)
    /\ hist' = NoHistory
    /\ last' = ECall("run_backtest", run.symbol, 0, "None")
    /\ nops' = nops + 1
    /\ UNCHANGED <<running, pe, today, stm, feed>>

\* for i in range(len(data)) over the caller's frame
NextRow ==
    /\ running = "rerun"
    /\ run.pc = "loop"
    /\ run.i < Len(feed.data)
    /\ run' = [run EXCEPT !.pc = "stops",
                          !.bar = feed.data[run.i + 1].bar,
                          !.current_signal = feed.data[run.i + 1].signal]
    /\ UNCHANGED <<running, pe, ee, today, last, hist, nops, stm, feed>>

\* a caller invokes _close_position itself, between runs
CloseCall ==
    /\ running = "enhanced"
    /\ run.pc \in {"idle", "done"}
    /\ \E symbol \in Symbols, price \in PriceLevels, reason \in ExitReasons :
          /\ ee' = E_close_position(ee, symbol, run.i, price * EUnit, reason)
          /\ last' = ECall("E_close", symbol, price * EUnit,
                           IF symbol \in DOMAIN ee.positions
                           THEN "closed" ELSE "None")
          /\ hist' = [hist EXCEPT !.closed = Closed(@, ee, ee')]
    /\ UNCHANGED <<running, pe, run, today, nops, stm, feed>>

----------------------------------------------------------------------------
(* A caller of STM_MeanReversion.generate_exit_signals: it extends the     *)
(* data frame row by row, enters a position at the latest row, and asks    *)
(* for a date from the entry on whether to exit                            *)

RowChoices(date) ==
    {[date |-> date, high |-> h * SUnit, low |-> l * SUnit,
      close |-> c * SUnit, bb_middle |-> ind[1] * SUnit, rsi_14 |-> ind[2]] :
        h \in Highs, l \in Lows, c \in Closes, ind \in Indicators}

LastDate(data) == data[Len(data)].date

NoVerdict == [symbol |-> "", entry_date |-> 0, entry_price |-> 0,
              current_date |-> 0, should_exit |-> FALSE, reason |-> "",
              stop_price |-> 0]

NoFeed == [data |-> <<>>, position |-> None, verdict |-> NoVerdict]

\* the next row of the frame arrives
STM_NextRow ==
    /\ running = "stm"
    /\ Len(feed.data) < MaxRows
    /\ \E gap \in Gaps :
          \E row \in RowChoices(IF feed.data = <<>> THEN 0
                                ELSE LastDate(feed.data) + gap) :
             feed' = [feed EXCEPT !.data = Append(@, row)]
    /\ UNCHANGED <<running, pe, ee, run, today, last, hist, nops, stm>>

\* the caller opens a position in the symbol at the latest row
STM_Enter ==
    /\ running = "stm"
    /\ feed.data # <<>>
    /\ feed.position = None
    /\ \E symbol \in RunSymbols, entry_price \in EntryPrices :
          /\ feed' = [feed EXCEPT !.position =
                         Some([symbol |-> symbol,
                               entry_date |-> LastDate(feed.data),
                               entry_price |-> entry_price * SUnit])]
          /\ last' = ECall("enter", symbol, entry_price * SUnit, "None")
    /\ UNCHANGED <<running, pe, ee, run, today, hist, nops, stm>>

\* generate_exit_signals is called for the position; the caller drops the
\* position when told to exit
STM_Evaluate ==
    /\ running = "stm"
    /\ feed.position # None
    /\ nops < MaxEvals
    /\ LET position == feed.position[1] IN
       \E current_date \in position.entry_date .. LastDate(feed.data) :
          LET r == generate_exit_signals(stm, feed.data, position.symbol,
                                         position.entry_date,
                                         position.entry_price, current_date)
          IN  /\ stm' = r.self
              /\ feed' = [feed EXCEPT
                    !.position = IF r.should_exit THEN None ELSE @,
                    !.verdict = [symbol |-> position.symbol,
                                 entry_date |-> position.entry_date,
                                 entry_price |-> position.entry_price,
                                 current_date |-> current_date,
                                 should_exit |-> r.should_exit,
                                 reason |-> r.reason,
                                 stop_price |-> StmStop(stm, position.symbol,
                                                   position.entry_price)]]
              /\ last' = ECall("exit_signals", position.symbol, 0,
                               IF r.should_exit THEN "True" ELSE "False")
    /\ nops' = nops + 1
    /\ UNCHANGED <<running, pe, ee, run, today, hist>>

STMChoices ==
    {STM(max_hold_days, max_hold_days = 1, TRUE, max_hold_days = 1) :
        max_hold_days \in MaxHoldChoices}
    \cup {STM(2, FALSE, FALSE, TRUE)}

----------------------------------------------------------------------------
(* BacktestEngine.run, one action per pass of its loop *)

\* a row of df after "Initialize columns"
InitialRow(signal, close) ==
    [signal |-> signal, close |-> close, position |-> 0,
     cash |-> BCapital * BUnit, holdings |-> 0, equity |-> BCapital * BUnit,
     returns |-> Ratio(0, 1), trade |-> 0]

\* price * (1 + slippage_pct) and price * (1 - slippage_pct)
B_BuyPrice(price) == (price * (BSlipDen + BSlipNum)) \div BSlipDen
B_SellPrice(price) == (price * (BSlipDen - BSlipNum)) \div BSlipDen

\* "Close existing position": the row and the trades after the sale
B_Sell(row, prev, i, price, locals) ==
    LET sell_price == B_SellPrice(price)
        proceeds == prev.position * sell_price
        commission == proceeds \div BCommDen
        cash_change == proceeds - commission
        pnl == (sell_price - locals.entry_price) * prev.position - commission
    IN  [row |-> [row EXCEPT !.cash = prev.cash + cash_change,
                             !.position = 0, !.trade = -1],
         trades |-> Append(locals.trades,
                      [entry_date |-> locals.entry_date, exit_date |-> i,
                       entry_price |-> locals.entry_price,
                       exit_price |-> sell_price,
                       shares |-> prev.position, pnl |-> pnl,
                       return_pct |-> Ratio((sell_price - locals.entry_price)
                                              * 100, locals.entry_price)])]

\* df.loc[curr_idx, 'cash'] if df.loc[curr_idx, 'cash'] > 0 else prev_cash
B_AvailableCash(row, prev) == IF row.cash > 0 THEN row.cash ELSE prev.cash

\* "Open new position": the row after the buy
B_Buy(row, prev, price, size_den) ==
    LET buy_price == B_BuyPrice(price)
        available_cash == B_AvailableCash(row, prev)
        position_value == available_cash \div size_den
        shares == position_value \div buy_price
        cost == shares * buy_price
        commission == cost \div BCommDen
    IN  [row EXCEPT !.cash = available_cash - cost - commission,
                    !.position = shares, !.trade = 1]

\* the body of "for i in range(1, len(df))" for the rows i - 1 and i
B_Bar(df, i, locals, size_den) ==
    LET prev == df[i]
        curr == df[i + 1]
        price == curr.close
        sold == IF prev.position > 0
                THEN B_Sell(curr, prev, i, price, locals)
                ELSE [row |-> curr, trades |-> locals.trades]
        traded == IF curr.signal > 0
                  THEN B_Buy(sold.row, prev, price, size_den)
                  ELSE [sold.row EXCEPT
                          !.cash = B_AvailableCash(sold.row, prev),
                          !.position = 0]
        row == IF prev.signal # curr.signal THEN traded
               ELSE [curr EXCEPT !.cash = prev.cash,
                                 !.position = prev.position]
        holdings == row.position * price
        equity == row.cash + holdings
        done == [row EXCEPT !.holdings = holdings, !.equity = equity,
                            !.returns = Ratio(equity - prev.equity,
                                              prev.equity)]
        bought == prev.signal # curr.signal /\ curr.signal > 0
    IN  [df |-> [df EXCEPT ![i + 1] = done],
         trades |-> IF prev.signal # curr.signal THEN sold.trades
                    ELSE locals.trades,
         entry_price |-> IF bought THEN B_BuyPrice(price)
                         ELSE locals.entry_price,
         entry_date |-> IF bought THEN i ELSE locals.entry_date]

\* the frame a caller hands to run, a signal and a close per row, with the
\* columns initialised
SignalFrame(signal, close) ==
    [k \in DOMAIN signal |-> InitialRow(signal[k], close[k])]

\* run(df, position_size) has copied df and initialised its columns
B_Start(df, size_den) ==
    [pc |-> "loop", i |-> 1, size_den |-> size_den, trades |-> <<>>,
     entry_price |-> 0, entry_date |-> -1, results |-> None]

\* one pass of the loop
B_NextBar ==
    /\ running = "vectorized"
    /\ run.pc = "loop"
    /\ run.i < Len(feed.data)
    /\ LET r == B_Bar(feed.data, run.i, run, run.size_den)
       IN  /\ feed' = [feed EXCEPT !.data = r.df]
           /\ run' = [run EXCEPT !.i = run.i + 1, !.trades = r.trades,
                                 !.entry_price = r.entry_price,
                                 !.entry_date = r.entry_date]
    /\ UNCHANGED <<running, pe, ee, today, last, hist, nops, stm>>

\* the loop is over: results['df'] and results['trades'] are returned
B_Return ==
    /\ running = "vectorized"
    /\ run.pc = "loop"
    /\ run.i >= Len(feed.data)
    /\ run' = [run EXCEPT !.pc = "done",
                          !.results = Some([df |-> feed.data,
                                            trades |-> run.trades])]
    /\ UNCHANGED <<running, pe, ee, today, last, hist, nops, stm, feed>>

----------------------------------------------------------------------------
(* Specifications *)

Constructed ==
    /\ ee = EnhancedEngine
    /\ run = Idle
    /\ today = 0
    /\ last = NoCall
    /\ hist = NoHistory
    /\ nops = 0
    /\ feed = NoFeed

PortfolioChoices ==
    {PortfolioEngine(capital * Unit, max_positions) :
        capital \in CapitalChoices, max_positions \in MaxPositionsChoices}

InitP ==
    /\ running = "portfolio"
    /\ pe \in PortfolioChoices
    /\ stm = CHOOSE x \in STMChoices : TRUE
    /\ Constructed

InitE ==
    /\ running = "enhanced"
    /\ pe = CHOOSE e \in PortfolioChoices : TRUE
    /\ stm = CHOOSE x \in STMChoices : TRUE
    /\ Constructed

InitS ==
    /\ running = "stm"
    /\ pe = CHOOSE e \in PortfolioChoices : TRUE
    /\ stm \in STMChoices
    /\ Constructed

\* the arguments a caller may pass for max_positions: __init__ stores any
MaxPositionsArgs == {0} \cup MaxPositionsChoices

\* PortfolioBacktestEngine(initial_capital=..., max_positions=...) is called
Construct ==
    /\ running = "new"
    /\ \E capital \in CapitalChoices, max_positions \in MaxPositionsArgs :
          pe' = PortfolioEngine(capital * Unit, max_positions)
    /\ running' = "portfolio"
    /\ UNCHANGED <<ee, run, today, last, hist, nops, stm, feed>>

\* no portfolio engine has been constructed yet
InitC ==
    /\ running = "new"
    /\ pe = None
    /\ stm = CHOOSE x \in STMChoices : TRUE
    /\ Constructed

\* an engine, a strategy and a frame that are run more than once
InitR ==
    /\ running = "rerun"
    /\ pe = CHOOSE e \in PortfolioChoices : TRUE
    /\ stm = CHOOSE x \in STMChoices : TRUE
    /\ ee = EnhancedEngine
    /\ \E strategy \in StrategyChoices, symbol \in RunSymbols :
          run = [Idle EXCEPT !.strategy = strategy, !.symbol = symbol]
    /\ \E data \in Frames : feed = [NoFeed EXCEPT !.data = data]
    /\ today = 0
    /\ last = NoCall
    /\ hist = NoHistory
    /\ nops = 0

\* a bar whose high is below its low
Malformed(bar) == bar.high < bar.low

\* rows a data frame can hold although no market produces them
MalformedRows ==
    {[bar |-> [high |-> 8 * EUnit, low |-> 24 * EUnit, close |-> 16 * EUnit],
      signal |-> signal] : signal \in {1, -1, 2}}

\* the frames that hold at least one such row
MalformedFrames ==
    {data \in UNION {[1 .. n -> FrameRows \cup MalformedRows] :
                        n \in 1 .. MaxBars} :
        \E k \in DOMAIN data : Malformed(data[k].bar)}

\* run_backtest is handed a frame with a malformed row
InitM ==
    /\ running = "rerun"
    /\ pe = CHOOSE e \in PortfolioChoices : TRUE
    /\ stm = CHOOSE x \in STMChoices : TRUE
    /\ ee = EnhancedEngine
    /\ \E strategy \in StrategyChoices, symbol \in RunSymbols :
          run = [Idle EXCEPT !.strategy = strategy, !.symbol = symbol]
    /\ \E data \in MalformedFrames : feed = [NoFeed EXCEPT !.data = data]
    /\ today = 0
    /\ last = NoCall
    /\ hist = NoHistory
    /\ nops = 0

Init == InitP \/ InitE \/ InitS

NextP == OpenPosition \/ ClosePosition \/ UpdateEquity

NextE ==
    \/ RunBacktest
    \/ NextBar
    \/ CheckStops
    \/ ProcessSignal
    \/ RecordEquity
    \/ FinalClose
    \/ CloseCall

NextS == STM_NextRow \/ STM_Enter \/ STM_Evaluate

Next == NextP \/ NextE \/ NextS

SpecP == InitP /\ [][NextP]_vars

SpecS == InitS /\ [][NextS]_vars

\* the engine that holds stop prices and the strategy that trails them
SpecES == (InitE \/ InitS) /\ [][NextE \/ NextS]_vars

\* the two backtest engines
SpecPE == (InitP \/ InitE) /\ [][NextP \/ NextE]_vars

SpecE == InitE /\ [][NextE]_vars

\* initial_capital of the engines whose metrics are read, dollars
MetricsCapitals == {9, 512}

\* the engine of the caller that reads the metrics
InitG ==
    /\ running = "metrics"
    /\ \E capital \in MetricsCapitals : pe = PortfolioEngine(capital * Unit, 1)
    /\ stm = CHOOSE x \in STMChoices : TRUE
    /\ Constructed

NextG == M_Open \/ M_Close \/ M_Update \/ GetMetrics

SpecG == InitG /\ [][NextG]_vars

\* construction of a portfolio engine, then its calls
SpecC == InitC /\ [][Construct \/ NextP]_vars

\* BacktestEngine.run on a frame of signals
InitB ==
    /\ running = "vectorized"
    /\ pe = CHOOSE e \in PortfolioChoices : TRUE
    /\ stm = CHOOSE x \in STMChoices : TRUE
    /\ ee = EnhancedEngine
    /\ \E n \in 1 .. MaxLen, size_den \in SizeDens :
          \E signal \in [1 .. n -> SignalValues],
             close \in [1 .. n -> ClosePrices] :
             LET df == SignalFrame(signal, close)
             IN  /\ feed = [NoFeed EXCEPT !.data = df]
                 /\ run = B_Start(df, size_den)
    /\ today = 0
    /\ last = NoCall
    /\ hist = NoHistory
    /\ nops = 0

NextB == B_NextBar \/ B_Return

SpecB == InitB /\ [][NextB]_vars

NextR ==
    \/ RunAgain
    \/ NextRow
    \/ CheckStops
    \/ ProcessSignal
    \/ RecordEquity
    \/ FinalClose

SpecR == InitR /\ [][NextR]_vars

SpecM == InitM /\ [][NextR]_vars

Spec == Init /\ [][Next]_vars

----------------------------------------------------------------------------
(* Properties.  The arithmetic of the claims is restated here from the     *)
(* claims' own words, not taken from the operators above.                  *)

\* the engine object the behaviour drives
Ledger == IF running = "portfolio" THEN pe ELSE ee

OpenOf(s) == hist.opened[s] - hist.closed[s]

\* max(fixed, value * commission_pct) for a value in ticks
HybridCommission(fixed, value) ==
    IF value \div CommDen > fixed THEN value \div CommDen ELSE fixed

SlippedUp(price) == (price * Unit * (SlipDen + 1)) \div SlipDen
SlippedDown(price) == (price * Unit * (SlipDen - 1)) \div SlipDen

OpenedNow == last.op = "open" /\ last.ret = "True"
ResizedNow == OpenedNow /\ last.resized

\* C1: in both engines a symbol has at most one open position at any time:
\* the positions opened and not yet closed for a symbol number 1 when the
\* symbol is in the ledger and 0 when it is not, so no open ever adds to or
\* replaces a position that is still held.
C1_AtMostOnePerSymbol ==
    \A s \in Symbols :
        OpenOf(s) = IF s \in DOMAIN Ledger.positions THEN 1 ELSE 0

\* an open_position call on a symbol already held has just been refused
C1_Witness ==
    /\ running = "portfolio"
    /\ last.op = "open" /\ last.ret = "False"
    /\ last.symbol \in DOMAIN pe.positions
    /\ hist.opened[last.symbol] = 1

\* C2: the number of open positions never exceeds max_positions.
C2_MaxPositions ==
    Cardinality(DOMAIN pe.positions) <= pe.max_positions

\* max_positions = 1, one symbol opened on this bar, and the open of the
\* other symbol on the same bar has just been refused for the limit alone
C2_Witness ==
    /\ pe.max_positions = 1
    /\ last.op = "open" /\ last.ret = "False" /\ ~last.resized
    /\ last.symbol \notin DOMAIN pe.positions
    /\ \E s \in DOMAIN pe.positions :
          /\ pe.positions[s].entry_date = today
          /\ pe.positions[s].shares > 0
    /\ (SlippedUp(last.price) * last.shares
          + HybridCommission(pe.commission_per_trade,
                             SlippedUp(last.price) * last.shares)) <= pe.cash

\* C3: an open_position call that returns False leaves cash, equity, the
\* open positions, closed_trades and the equity curve as they were.
C3_RejectedOpenIsNoOp ==
    [][ (last'.op = "open" /\ last'.ret = "False")
        => /\ pe'.cash = pe.cash
           /\ pe'.equity = pe.equity
           /\ pe'.positions = pe.positions
           /\ pe'.closed_trades = pe.closed_trades
           /\ pe'.equity_curve = pe.equity_curve ]_vars

\* an open has just been refused because the resized share count is 0,
\* with a position and an equity sample already on the books
C3_Witness ==
    /\ last.op = "open" /\ last.ret = "False" /\ last.resized
    /\ last.available >= SlippedUp(last.price) * last.shares * (ResDen \div 2)
    /\ pe.positions # <<>>
    /\ pe.equity_curve # <<>>

\* C4 as claimed: a resized open fills at least half the shares asked for.
C4_ResizedAtLeastHalf ==
    ResizedNow => 2 * last.filled >= last.shares

\* C5 as claimed: a resized open fills the largest n with
\* n * entry_price + commission(n) <= available capital, never more than
\* was asked for, and its total cost is within the available capital.
C5_Cost(n) ==
    SlippedUp(last.price) * n
    + HybridCommission(pe.commission_per_trade, SlippedUp(last.price) * n)

C5_ResizedLargestAffordable ==
    ResizedNow =>
        /\ C5_Cost(last.filled) * ResDen <= last.available
        /\ C5_Cost(last.filled + 1) * ResDen > last.available
        /\ last.filled <= last.shares
        /\ last.amount * ResDen <= last.available

\* C6: every fill, entry (resized or not) or exit, moves cash by the fill's
\* value and a commission of max(commission_per_trade, value *
\* commission_pct), value being the post-slippage price times the shares
\* filled.
C6_HybridCommission ==
    [][ /\ (last'.op = "open" /\ last'.ret = "True") =>
              LET value == SlippedUp(last'.price)
                           * pe'.positions[last'.symbol].shares
              IN  pe.cash - pe'.cash
                  = value + HybridCommission(pe.commission_per_trade, value)
        /\ (last'.op = "close" /\ last'.ret # "False") =>
              LET value == SlippedDown(last'.price)
                           * pe.positions[last'.symbol].shares
              IN  pe'.cash - pe.cash
                  = value - HybridCommission(pe.commission_per_trade, value)
      ]_vars

\* a resized entry whose percentage commission exceeds the fixed one
C6_Witness ==
    /\ ResizedNow
    /\ last.filled < last.shares
    /\ last.commission > pe.commission_per_trade

\* C7: an open_position call that returns True takes entry_value +
\* commission from cash and puts the symbol in the ledger with entry_price
\* = price * (1 + slippage_pct) and entry_value = entry_price * shares;
\* closed_trades and the other open positions stay as they were.
C7_SuccessfulOpen ==
    [][ (last'.op = "open" /\ last'.ret = "True") =>
          LET symbol == last'.symbol IN
          /\ symbol \notin DOMAIN pe.positions
          /\ DOMAIN pe'.positions = DOMAIN pe.positions \cup {symbol}
          /\ pe'.positions[symbol].entry_price = SlippedUp(last'.price)
          /\ pe'.positions[symbol].entry_value
                = SlippedUp(last'.price) * pe'.positions[symbol].shares
          /\ pe.cash - pe'.cash
                = pe'.positions[symbol].entry_value
                  + HybridCommission(pe.commission_per_trade,
                                     pe'.positions[symbol].entry_value)
          /\ \A s \in DOMAIN pe.positions :
                pe'.positions[s] = pe.positions[s]
          /\ pe'.closed_trades = pe.closed_trades ]_vars

\* a second position has just been opened beside one already held
C7_Witness ==
    /\ OpenedNow
    /\ last.filled > 0
    /\ Cardinality(DOMAIN pe.positions) = 2

\* C8: closing a symbol that has no open position changes nothing, in
\* either engine, and PortfolioBacktestEngine.close_position returns False.
C8_CloseWithoutPositionIsNoOp ==
    [][ /\ (running = "portfolio" /\ last'.op = "close"
             /\ last'.symbol \notin DOMAIN pe.positions)
            => (last'.ret = "False" /\ pe' = pe)
        /\ (running = "enhanced" /\ last'.op = "E_close"
             /\ last'.symbol \notin DOMAIN ee.positions)
            => ee' = ee ]_vars

\* a close of a symbol that is not held has just returned False while
\* another position is open and a trade is on record
C8_Witness ==
    /\ running = "portfolio"
    /\ last.op = "close" /\ last.ret = "False"
    /\ pe.positions # <<>>
    /\ pe.closed_trades # <<>>

\* C9: a close_position call that returns True removes the symbol from the
\* ledger, appends one ClosedTrade for it after the earlier ones, and adds
\* exit_value - commission to cash, exit_value = price * (1 -
\* slippage_pct) * shares; the other open positions stay as they were.
C9_SuccessfulClose ==
    [][ (last'.op = "close" /\ last'.ret = "True") =>
          LET symbol == last'.symbol
              n == Len(pe.closed_trades)
              exit_value == SlippedDown(last'.price)
                            * pe.positions[symbol].shares
          IN
          /\ DOMAIN pe'.positions = DOMAIN pe.positions \ {symbol}
          /\ \A s \in DOMAIN pe'.positions :
                pe'.positions[s] = pe.positions[s]
          /\ Len(pe'.closed_trades) = n + 1
          /\ SubSeq(pe'.closed_trades, 1, n) = pe.closed_trades
          /\ pe'.closed_trades[n + 1].symbol = symbol
          /\ pe'.closed_trades[n + 1].exit_value = exit_value
          /\ pe'.cash - pe.cash
                = exit_value
                  - HybridCommission(pe.commission_per_trade, exit_value)
      ]_vars

\* a second trade has just been appended after an earlier one
C9_Witness ==
    /\ last.op = "close" /\ last.ret = "True"
    /\ Len(pe.closed_trades) = 2
    /\ pe.closed_trades[2].symbol = last.symbol

\* C10 as claimed: a ClosedTrade's pnl is exit_value - entry_value and its
\* pnl_pct is pnl / entry_value.
C10_GrossPnl ==
    \A k \in 1 .. Len(pe.closed_trades) :
        LET t == pe.closed_trades[k] IN
        /\ t.exit_value = t.exit_price * t.shares
        /\ t.entry_value = t.entry_price * t.shares
        /\ t.pnl = t.exit_value - t.entry_value
        /\ t.pnl_pct = <<t.pnl, t.entry_value>>

----------------------------------------------------------------------------
(* The bar loop of EnhancedBacktestEngine.run_backtest *)

\* the position run_backtest holds for its symbol, in this state
Held == run.symbol \in DOMAIN ee.positions
Position == ee.positions[run.symbol]

\* steps of the loop, recognised by the phase they leave and enter
StopsStep == run.pc = "stops" /\ run'.pc = "signal"
SignalStep == run.pc = "signal" /\ run'.pc = "equity"
EquityStep == run.pc = "equity" /\ run'.pc = "loop"
FinalStep == run.pc = "loop" /\ run'.pc = "done"

\* price * (1 - slippage_pct * direction), and the cash a close credits
ExitFill(price, direction) == (price * (ESlipDen - direction)) \div ESlipDen
CloseCredit(position, exit_price) ==
    IF position.direction = 1
    THEN exit_price * position.shares
         - (exit_price * position.shares) \div ECommDen
    ELSE position.entry_price * position.shares
         + (position.entry_price - exit_price) * position.shares
         - (exit_price * position.shares) \div ECommDen

LastTrade(engine) == engine.closed_trades[Len(engine.closed_trades)]

\* C11: when the bar's signal is LONG against an open short, or SHORT
\* against an open long, the position is closed with reason Signal Reversal
\* at the bar's close: its trade is appended to closed_trades, and when the
\* open that follows opens nothing the cash credit of the close stays and
\* the symbol is out of the ledger.
C11_ReversalCloseCommits ==
    [][ (/\ SignalStep
         /\ run.current_signal \in {1, -1}
         /\ Held
         /\ Position.direction = -run.current_signal)
        => LET exit_price == ExitFill(run.bar.close, Position.direction)
               trade == LastTrade(ee')
           IN  /\ Len(ee'.closed_trades) = Len(ee.closed_trades) + 1
               /\ SubSeq(ee'.closed_trades, 1, Len(ee.closed_trades))
                     = ee.closed_trades
               /\ trade.symbol = run.symbol
               /\ trade.entry_date = Position.entry_date
               /\ trade.exit_reason = <<"Signal Reversal">>
               /\ trade.exit_price = <<exit_price>>
               /\ IF last'.ret = "opened"
                  THEN /\ run.symbol \in DOMAIN ee'.positions
                       /\ ee'.positions[run.symbol].direction
                             = run.current_signal
                  ELSE /\ run.symbol \notin DOMAIN ee'.positions
                       /\ ee'.cash
                             = ee.cash + CloseCredit(Position, exit_price)
      ]_vars

\* a reversal has just closed the position on this bar and the open that
\* followed it opened nothing
C11_Witness ==
    /\ running = "enhanced"
    /\ run.pc = "equity"
    /\ last.op = "process_signal" /\ last.ret = "None"
    /\ run.current_signal \in {1, -1}
    /\ ee.closed_trades # <<>>
    /\ LastTrade(ee).exit_reason = <<"Signal Reversal">>
    /\ LastTrade(ee).exit_date = <<run.i>>
    /\ ~Held

\* the trades a step appends to closed_trades
NewTrades == SubSeq(ee'.closed_trades, Len(ee.closed_trades) + 1,
                    Len(ee'.closed_trades))
StopReasons == {<<"Stop Loss">>, <<"Take Profit">>}
SignalReasons == {<<"Signal Reversal">>, <<"Exit Signal">>}

\* C12: in every bar the stop-loss / take-profit evaluation comes first and
\* only closes a position opened on an earlier bar, the bar's signal is
\* applied next and closes only for a reversal or an exit signal, and one
\* equity sample is recorded last, with the ledger left as the signal step
\* made it: a position opened on a bar is not stop-checked on that bar.
C12_BarOrder ==
    [][ /\ (run.pc = "loop" /\ run'.pc # "done") => run'.pc = "stops"
        /\ run.pc = "stops" =>
              /\ run'.pc = "signal"
              /\ DOMAIN ee'.positions \subseteq DOMAIN ee.positions
              /\ Len(NewTrades) <= 1
              /\ \A k \in 1 .. Len(NewTrades) :
                    /\ NewTrades[k].exit_reason \in StopReasons
                    /\ NewTrades[k].entry_date < run.i
              /\ ee'.equity_curve = ee.equity_curve
        /\ run.pc = "signal" =>
              /\ run'.pc = "equity"
              /\ \A k \in 1 .. Len(NewTrades) :
                    NewTrades[k].exit_reason \in SignalReasons
              /\ ee'.equity_curve = ee.equity_curve
        /\ run.pc = "equity" =>
              /\ run'.pc = "loop"
              /\ Len(ee'.equity_curve) = Len(ee.equity_curve) + 1
              /\ ee'.positions = ee.positions
              /\ ee'.closed_trades = ee.closed_trades
              /\ ee'.cash = ee.cash
      ]_vars

\* the bar's signal has opened a long whose stop lies inside this bar's
\* range, and the position is still held when equity is recorded
C12_Witness ==
    /\ running = "enhanced"
    /\ run.pc = "loop" /\ run.i > 0
    /\ Held
    /\ Position.entry_date = run.i - 1
    /\ Position.direction = 1
    /\ Position.stop_price # <<>>
    /\ run.bar.low <= Position.stop_price[1]
    /\ Len(ee.equity_curve) = run.i

\* the bar reaches the position's stop / its target
TouchesStop(position, bar) ==
    /\ position.stop_price # <<>>
    /\ IF position.direction = 1
       THEN bar.low <= position.stop_price[1]
       ELSE bar.high >= position.stop_price[1]
TouchesTarget(position, bar) ==
    /\ position.take_profit_price # <<>>
    /\ IF position.direction = 1
       THEN bar.high >= position.take_profit_price[1]
       ELSE bar.low <= position.take_profit_price[1]

\* the stops step closed the held position for this reason at this level
ClosedFor(reason, level) ==
    /\ ~Held'
    /\ Len(NewTrades) = 1
    /\ NewTrades[1].symbol = run.symbol
    /\ NewTrades[1].exit_reason = <<reason>>
    /\ NewTrades[1].exit_date = <<run.i>>
    /\ NewTrades[1].exit_price = <<ExitFill(level[1], Position.direction)>>

\* C13: a bar that reaches both the stop and the target of a long or short
\* position closes it as a Stop Loss, filled from the stop price, and
\* never as a Take Profit.
C13_StopBeforeTarget ==
    [][ (/\ StopsStep
         /\ Held
         /\ TouchesStop(Position, run.bar)
         /\ TouchesTarget(Position, run.bar))
        => ClosedFor("Stop Loss", Position.stop_price) ]_vars

\* a short has just been stopped out on a bar that also reached its target
C13_Witness ==
    /\ running = "enhanced"
    /\ run.pc = "signal"
    /\ last.op = "check_stops" /\ last.ret = "Stop Loss"
    /\ LastTrade(ee).direction = -1
    /\ LastTrade(ee).exit_date = <<run.i>>
    /\ LastTrade(ee).take_profit_price # <<>>
    /\ run.bar.low <= LastTrade(ee).take_profit_price[1]

\* C14: with check_intrabar_stops on, every bar that starts with a position
\* open closes it as a Stop Loss when the bar reaches the stop (low <= stop
\* for a long, high >= stop for a short), otherwise as a Take Profit when
\* the bar reaches the target (high >= target for a long, low <= target
\* for a short), and closes nothing when it reaches neither; so the
\* position goes on the first such bar after its entry.
C14_IntrabarStops ==
    [][ (StopsStep /\ Held /\ ee.check_intrabar_stops)
        => IF TouchesStop(Position, run.bar)
           THEN ClosedFor("Stop Loss", Position.stop_price)
           ELSE IF TouchesTarget(Position, run.bar)
           THEN ClosedFor("Take Profit", Position.take_profit_price)
           ELSE /\ Held'
                /\ NewTrades = <<>>
                /\ ee'.cash = ee.cash ]_vars

\* a long has just been closed at its target, on the bar after its entry,
\* by a bar whose low stayed above its stop and whose close is below the
\* target
C14_Witness ==
    /\ running = "enhanced"
    /\ run.pc = "signal"
    /\ last.op = "check_stops" /\ last.ret = "Take Profit"
    /\ LastTrade(ee).direction = 1
    /\ LastTrade(ee).exit_date = <<run.i>>
    /\ LastTrade(ee).entry_date = run.i - 1
    /\ LastTrade(ee).stop_price # <<>>
    /\ run.bar.low > LastTrade(ee).stop_price[1]
    /\ run.bar.close < LastTrade(ee).take_profit_price[1]

\* the same position is in the ledger before and after the step
StaysOpen ==
    /\ Held /\ Held'
    /\ ee'.positions[run.symbol].entry_date = Position.entry_date

\* the caller of the STM strategy keeps its position over the step
StmStaysOpen == feed.position # <<>> /\ feed'.position = feed.position

\* C15: while a position stays open its stop only moves the favourable way:
\* in EnhancedBacktestEngine the stop_price of a long never goes down and
\* that of a short never goes up from one step to the next, and in
\* STM_MeanReversion trailing_stops[symbol] never goes down.
C15_StopOnlyRatchets ==
    [][ /\ StaysOpen =>
              LET old == Position.stop_price
                  new == ee'.positions[run.symbol].stop_price
              IN  /\ (old = <<>>) = (new = <<>>)
                  /\ old # <<>> =>
                        IF Position.direction = 1 THEN new[1] >= old[1]
                        ELSE new[1] <= old[1]
        /\ StmStaysOpen =>
              \A symbol \in DOMAIN stm.trailing_stops :
                  /\ symbol \in DOMAIN stm'.trailing_stops
                  /\ stm'.trailing_stops[symbol] >= stm.trailing_stops[symbol]
      ]_vars

\* the STM strategy has just raised the trailing stop it already had for
\* the position, which stays open
C15_Witness ==
    /\ running = "stm"
    /\ last.op = "exit_signals" /\ last.ret = "False"
    /\ feed.position # <<>>
    /\ feed.verdict.symbol \in DOMAIN stm.trailing_stops
    /\ feed.verdict.stop_price
          # (feed.verdict.entry_price * (StmStopDen - 1)) \div StmStopDen
    /\ stm.trailing_stops[feed.verdict.symbol] > feed.verdict.stop_price

\* the highest (for a short: lowest) close seen since the entry, the entry
\* price included: mfe carries the best excursion of the closes
BestSeen(position) ==
    IF position.direction = 1
    THEN position.entry_price + position.mfe[1]
    ELSE position.entry_price - position.mfe[1]

\* C16 as claimed: with trailing_stop_pct set, after every bar that the
\* position held at its start survives, the stop of a long is at least
\* (highest price since entry) * (1 - trailing_stop_pct), and the stop of a
\* short at most (lowest price since entry) * (1 + trailing_stop_pct).
C16_TrailingStopFollows ==
    (/\ running = "enhanced"
     /\ run.pc = "loop" /\ run.i > 0
     /\ run.strategy.trailing
     /\ Held
     /\ Position.entry_date < run.i - 1)
    => /\ Position.stop_price # <<>>
       /\ IF Position.direction = 1
          THEN Position.stop_price[1] * StopDen
                 >= BestSeen(Position) * (StopDen - 1)
          ELSE Position.stop_price[1] * StopDen
                 <= BestSeen(Position) * (StopDen + 1)

\* the call that has just returned was generate_exit_signals, for a date
\* that has a row in the data
Evaluated ==
    /\ last.op = "exit_signals"
    /\ \E k \in 1 .. Len(feed.data) :
          feed.data[k].date = feed.verdict.current_date
EvaluatedRow ==
    feed.data[CHOOSE k \in 1 .. Len(feed.data) :
                 feed.data[k].date = feed.verdict.current_date]

\* C17: a generate_exit_signals call for a bar of the data that lies
\* max_hold_days or more after the entry returns should_exit = True, with
\* reason Stop Loss when the bar's low is at or below the stop and the Max
\* Hold reason otherwise.
C17_MaxHoldForcesExit ==
    (/\ Evaluated
     /\ feed.verdict.current_date - feed.verdict.entry_date
           >= stm.max_hold_days)
    => /\ feed.verdict.should_exit
       /\ feed.verdict.reason
            = IF EvaluatedRow.low <= feed.verdict.stop_price
              THEN "Stop Loss"
              ELSE "Max Hold (" \o ToString(stm.max_hold_days) \o " days)"
       /\ feed.position = <<>>

\* the hold limit has just been reached, on the day it expires, by a bar
\* that stays above the stop: the verdict is Max Hold
C17_Witness ==
    /\ Evaluated
    /\ feed.verdict.current_date - feed.verdict.entry_date
          = stm.max_hold_days
    /\ EvaluatedRow.low > feed.verdict.stop_price
    /\ feed.verdict.should_exit
    /\ feed.verdict.reason # "Stop Loss"

\* C18: the end of run_backtest leaves the ledger empty: a position still
\* open after the last bar is closed at that bar's close with reason End of
\* Backtest, nothing else is closed, and closed_trades then holds each
\* position opened in the run once: as many trades as opens, with entry
\* dates in increasing order.
C18_EndOfBacktest ==
    [][ FinalStep =>
          /\ ee'.positions = <<>>
          /\ IF Held
             THEN /\ Len(NewTrades) = 1
                  /\ NewTrades[1].symbol = run.symbol
                  /\ NewTrades[1].entry_date = Position.entry_date
                  /\ NewTrades[1].shares = Position.shares
                  /\ NewTrades[1].exit_reason = <<"End of Backtest">>
                  /\ NewTrades[1].exit_date = <<run.i - 1>>
                  /\ NewTrades[1].exit_price
                        = <<ExitFill(run.bar.close, Position.direction)>>
                  /\ ee'.cash = ee.cash
                                + CloseCredit(Position, NewTrades[1].exit_price[1])
             ELSE NewTrades = <<>> /\ ee'.cash = ee.cash
          /\ Len(ee'.closed_trades) = hist.opened[run.symbol]
          /\ \A j, k \in 1 .. Len(ee'.closed_trades) :
                j < k => ee'.closed_trades[j].entry_date
                           < ee'.closed_trades[k].entry_date
      ]_vars

\* the run has returned after closing what the last bar left open, with an
\* earlier trade of the same run already on record
C18_Witness ==
    /\ running = "enhanced"
    /\ run.pc = "done"
    /\ last.op = "final_close"
    /\ ee.positions = <<>>
    /\ Len(ee.closed_trades) = 2
    /\ LastTrade(ee).exit_reason = <<"End of Backtest">>
    /\ LastTrade(ee).exit_date = <<run.i - 1>>

----------------------------------------------------------------------------
(* Equity of PortfolioBacktestEngine and the equity curves *)

\* value of a position at its latest known price: the price of its last
\* update, or the entry price while it has had none
LatestValue(position) ==
    IF position.current_value # 0 THEN position.current_value
    ELSE position.entry_value

\* C19 as claimed: after update_equity, equity is cash plus the value of
\* every open position, those without a price in current_prices included
\* at their latest known price.
C19_EquityCountsAllPositions ==
    (running = "portfolio" /\ last.op = "update")
    => LET value == [s \in DOMAIN pe.positions |->
                        LatestValue(pe.positions[s])]
       IN  pe.equity = pe.cash + SumOver(value, DOMAIN value)

\* C20: the equity curve gets one sample per bar, at its end and in bar
\* order: each update_equity call of PortfolioBacktestEngine and each loop
\* iteration of run_backtest appends one sample dated with its bar, so k
\* bars leave k samples, and no open or close, the forced close at the end
\* of the series included, changes the curve (a new run starts it afresh).
C20_EquityCurveAppendOnly ==
    [][ /\ running = "portfolio" =>
              IF today' # today
              THEN /\ Len(pe'.equity_curve) = today'
                   /\ pe'.equity_curve
                        = Append(pe.equity_curve,
                                 <<today, pe'.equity, pe'.cash>>)
              ELSE pe'.equity_curve = pe.equity_curve
        /\ running = "enhanced" =>
              IF EquityStep
              THEN /\ Len(ee'.equity_curve) = run'.i
                   /\ ee'.equity_curve
                        = Append(ee.equity_curve, <<run.i, ee'.equity>>)
              ELSE IF run'.pc = "loop" /\ run.pc # "stops"
                      /\ run.pc # "loop"
              THEN ee'.equity_curve = <<>>
              ELSE ee'.equity_curve = ee.equity_curve
      ]_vars

\* run_backtest has force-closed a position after two bars and the curve
\* holds the two samples of those bars
C20_Witness ==
    /\ running = "enhanced"
    /\ run.pc = "done" /\ run.i = 2
    /\ last.op = "final_close"
    /\ ee.closed_trades # <<>>
    /\ LastTrade(ee).exit_reason = <<"End of Backtest">>
    /\ Len(ee.equity_curve) = 2
    /\ ee.equity_curve[1][1] = 0 /\ ee.equity_curve[2][1] = 1

\* C21: peak_equity never goes down, whatever the operation, and after an
\* update_equity call it is at least the equity just computed and at least
\* initial_capital.
C21_PeakEquity ==
    [][ /\ pe'.peak_equity >= pe.peak_equity
        /\ last'.op = "update" =>
              /\ pe'.peak_equity >= pe'.equity
              /\ pe'.peak_equity >= pe'.initial_capital ]_vars

\* an update_equity call has just found equity below a peak that an
\* earlier call had raised above initial_capital
C21_Witness ==
    /\ running = "portfolio"
    /\ last.op = "update"
    /\ pe.peak_equity > pe.initial_capital
    /\ pe.equity < pe.peak_equity
    /\ Len(pe.equity_curve) = 2

\* the drawdown ratio a / b is at most the ratio c / d
FracLE(a, b, c, d) == ~FracGT(a, b, c, d)

\* C22: max_drawdown lies in [0, 1] in every state, never goes down, and
\* after an update_equity call is at least the drawdown of the sample just
\* taken, (peak_equity - equity) / peak_equity.
C22_MaxDrawdownBounded ==
    [][ /\ pe'.max_drawdown[1] >= 0
        /\ pe'.max_drawdown[1] <= pe'.max_drawdown[2]
        /\ FracLE(pe.max_drawdown[1], pe.max_drawdown[2],
                  pe'.max_drawdown[1], pe'.max_drawdown[2])
        /\ last'.op = "update" =>
              FracLE(pe'.peak_equity - pe'.equity, pe'.peak_equity,
                     pe'.max_drawdown[1], pe'.max_drawdown[2]) ]_vars

\* C23: when run_backtest has run a second time on the same engine, with the
\* same strategy, symbol, bars and signals, its closed trades and its equity
\* curve are those of the run before.
C23_RerunIdentical ==
    (running = "rerun" /\ run.pc = "done" /\ run.previous # None) =>
        /\ ee.closed_trades = run.previous[1].closed_trades
        /\ ee.equity_curve = run.previous[1].equity_curve

\* the second run is over and, like the first, it closed two trades, one of
\* them on a signal reversal
C23_Witness ==
    /\ running = "rerun"
    /\ run.pc = "done"
    /\ run.previous # None
    /\ nops = 2
    /\ Len(ee.closed_trades) = 2
    /\ ee.closed_trades[1].exit_reason = Some("Signal Reversal")
    /\ Len(ee.equity_curve) = MaxBars

\* C24: a run that closed no trade ends with a metrics record that carries
\* the sharpe_ratio, sortino_ratio and calmar_ratio entries next to its
\* no-trades indication.
C24_NoTradeMetrics ==
    (Backtesting /\ run.pc = "done" /\ ee.closed_trades = <<>>) =>
        /\ run.results # None
        /\ run.results[1].error # None
        /\ {"sharpe_ratio", "sortino_ratio", "calmar_ratio"}
              \subseteq run.results[1].keys

\* C25: every portfolio engine that exists was constructed with
\* initial_capital > 0 and max_positions >= 1; a constructor call with other
\* arguments fails and leaves no engine.
C25_ValidConfiguration ==
    running = "portfolio" =>
        /\ pe.initial_capital > 0
        /\ pe.max_positions >= 1

\* C26: while the loop is at a bar whose high is below its low, nothing is
\* opened or closed and no equity sample is appended: the engine is left as
\* it was before that bar.
C26_MalformedBarAborts ==
    [][ (Backtesting /\ run.pc \in {"stops", "signal", "equity"}
           /\ Malformed(run.bar)) => ee' = ee ]_vars

\* the price of the signal that a position was filled from
SignalPrice(position) ==
    (position.entry_price * ESlipDen) \div (ESlipDen + position.direction)

\* C27: a long filled from a signal at price p carries the stop
\* p * (1 - stop_loss_pct); when a later bar's low reaches it the position
\* is closed as a Stop Loss with pnl (stop - entry_price) * shares, the
\* entry price being the slipped one.
C27_StopLossScenario ==
    [][ (/\ StopsStep
         /\ Held
         /\ Position.direction = 1
         /\ TouchesStop(Position, run.bar))
        => LET stop == (SignalPrice(Position) * (StopDen - 1)) \div StopDen
           IN  /\ Position.stop_price = Some(stop)
               /\ Len(NewTrades) = 1
               /\ NewTrades[1].exit_reason = Some("Stop Loss")
               /\ NewTrades[1].pnl =
                     Some((stop - Position.entry_price) * Position.shares)
      ]_vars

\* the signal step opened a position
Entered == Held' /\ (~Held \/ NewTrades # <<>>)

\* C28: a position opened at the bar's close has entry_price = close *
\* (1 + slippage_pct) when long and close * (1 - slippage_pct) when short; a
\* position closed at the bar's close, by a signal or at the end of the run,
\* has exit_price = close * (1 - slippage_pct) when long and close *
\* (1 + slippage_pct) when short; and when that close is the price it was
\* opened at, its pnl is not positive.
C28_AdverseSlippage ==
    [][ /\ (SignalStep /\ Entered) =>
              ee'.positions[run.symbol].entry_price * ESlipDen =
                run.bar.close
                  * (ESlipDen + ee'.positions[run.symbol].direction)
        /\ (SignalStep \/ FinalStep) =>
              \A k \in DOMAIN NewTrades :
                 LET trade == NewTrades[k]
                 IN  /\ trade.exit_price[1] * ESlipDen =
                           run.bar.close * (ESlipDen - trade.direction)
                     /\ IF trade.direction = 1
                        THEN /\ trade.entry_price > SignalPrice(trade)
                             /\ trade.exit_price[1] < run.bar.close
                        ELSE /\ trade.entry_price < SignalPrice(trade)
                             /\ trade.exit_price[1] > run.bar.close
                     /\ SignalPrice(trade) = run.bar.close =>
                           trade.pnl[1] < 0 ]_vars

\* a short opened at a bar's close has just been closed by an exit signal
\* on a later bar with the same close
C28_Witness ==
    /\ running = "enhanced"
    /\ run.pc = "equity"
    /\ last.op = "process_signal"
    /\ ee.closed_trades # <<>>
    /\ LastTrade(ee).direction = -1
    /\ LastTrade(ee).exit_reason = Some("Exit Signal")
    /\ LastTrade(ee).exit_date = Some(run.i)
    /\ LastTrade(ee).entry_date < run.i
    /\ SignalPrice(LastTrade(ee)) = run.bar.close
    /\ LastTrade(ee).pnl[1] < 0

\* C29: every position in the portfolio ledger holds at least one share and
\* has entry_value > 0, and no close_position call ends in a division by
\* zero.
C29_PositiveShares ==
    running = "portfolio" =>
        /\ \A s \in DOMAIN pe.positions :
              /\ pe.positions[s].shares >= 1
              /\ pe.positions[s].entry_value > 0
        /\ last.op = "close" => last.ret # "ZeroDivisionError"

\* the strategy sizes an entry at this price to no share, or this cash
\* cannot pay for the sized entry and buys no share either
Unfillable(cash, price, direction) ==
    LET shares == calculate_position_size(run.strategy, price, ee.equity)
        entry_price == (price * (ESlipDen + direction)) \div ESlipDen
        cost == entry_price * shares
    IN  \/ shares <= 0
        \/ /\ cost + cost \div ECommDen > cash
           /\ E_ResizedShares(cash, entry_price) <= 0

\* the cash an entry finds: what a reversal's close has credited is in it
CashAtEntry ==
    IF Held
    THEN ee.cash + CloseCredit(Position,
                               ExitFill(run.bar.close, Position.direction))
    ELSE ee.cash

\* C30: when a LONG or SHORT signal arrives, with no position held or with
\* the opposite one that the signal closes first, and the entry cannot be
\* sized or afforded, the entry changes nothing: no position is in the
\* ledger, the cash is what it was before the entry, no sample is lost or
\* added, and the loop goes on to the equity step; every equity step
\* appends the bar's sample and moves to the next bar.
C30_UnfillableEntry ==
    [][ /\ (/\ SignalStep
            /\ run.current_signal \in {1, -1}
            /\ Held => Position.direction = -run.current_signal
            /\ Unfillable(CashAtEntry, run.bar.close, run.current_signal))
           => /\ ee'.positions = <<>>
              /\ ee'.cash = CashAtEntry
              /\ Len(NewTrades) = IF Held THEN 1 ELSE 0
              /\ ee'.equity_curve = ee.equity_curve
              /\ ee'.equity = ee.equity
              /\ run'.pc = "equity"
              /\ run'.i = run.i
        /\ EquityStep =>
              /\ Len(ee'.equity_curve) = Len(ee.equity_curve) + 1
              /\ ee'.equity_curve[Len(ee'.equity_curve)][1] = run.i
              /\ ee'.positions = ee.positions
              /\ ee'.cash = ee.cash
              /\ run'.i = run.i + 1 ]_vars

\* on the second bar a LONG signal has closed the short, the strategy has
\* sized the long to at least one share, and the cash left has bought none
C30_Witness ==
    /\ running = "enhanced"
    /\ run.pc = "equity"
    /\ run.i = 1
    /\ run.current_signal = 1
    /\ last.op = "process_signal" /\ last.ret = "None"
    /\ ee.positions = <<>>
    /\ Len(ee.closed_trades) = 1
    /\ LastTrade(ee).exit_reason = Some("Signal Reversal")
    /\ Len(ee.equity_curve) = 1
    /\ calculate_position_size(run.strategy, run.bar.close, ee.equity) >= 1
    /\ Unfillable(ee.cash, run.bar.close, 1)

\* C31: whenever get_performance_metrics reports on daily returns none of
\* which is negative, the sortino_ratio it reports is 0, whatever the
\* sharpe_ratio.
C31_SortinoWithoutDownside ==
    (/\ running = "metrics"
     /\ last.op = "metrics"
     /\ last.ret = "None"
     /\ "sortino_ratio" \in last.metrics.keys
     /\ \A i \in DOMAIN pe.daily_returns : ~IsNegative(pe.daily_returns[i]))
    => last.metrics.sortino_ratio = Some("0")

\* the rows before and at the bar that B_NextBar works on, and the row it
\* leaves behind
PrevRow == feed.data[run.i]
CurrRow == feed.data[run.i + 1]
DoneRow == feed'.data[run.i + 1]

\* the bar's signal differs from the previous bar's and no shares are held
\* to sell
ChangeWithoutSale == PrevRow.signal # CurrRow.signal /\ PrevRow.position = 0

\* C32: cash is carried forward from bar to bar: a buy without a sale on the
\* same bar is sized from the previous bar's cash, and a bar whose signal
\* changes while nothing is bought or sold keeps the previous bar's cash.
C32_CashCarriedForward ==
    [][ (B_NextBar /\ ChangeWithoutSale)
        => IF CurrRow.signal > 0
           THEN DoneRow.position =
                  (PrevRow.cash \div run.size_den)
                     \div B_BuyPrice(CurrRow.close)
           ELSE DoneRow.cash = PrevRow.cash ]_vars

\* C39: for every bar i >= 1, with positive cash to trade with, the position
\* held after the bar is positive exactly when the bar's signal is > 0.
C39_InMarketIffSignal ==
    [][ (B_NextBar /\ PrevRow.cash > 0)
        => (DoneRow.position > 0 <=> CurrRow.signal > 0) ]_vars

\* run_backtest has returned after force-closing a position at the end of
\* the series
ForceClosed ==
    /\ run.pc = "done"
    /\ run.results # None
    /\ ee.closed_trades # <<>>
    /\ LastTrade(ee).exit_reason = Some("End of Backtest")

\* C33: after the end-of-series force-close the reported final_equity equals
\* cash, so that it includes the slippage and commission of that close.
C33_FinalEquityIsCash ==
    ForceClosed => /\ run.results[1].final_equity = ee.cash
                   /\ ee.equity = ee.cash

\* sum of pnl over the closed trades
RealizedPnl ==
    LET pnl == [k \in DOMAIN pe.closed_trades |-> pe.closed_trades[k].pnl]
    IN  SumOver(pnl, DOMAIN pnl)

\* C34: whenever no position is open, cash - initial_capital equals the sum
\* of pnl over all closed trades.
C34_RealizedPnlReconciles ==
    (DOMAIN pe.positions = {} /\ pe.closed_trades # <<>>)
    => pe.cash - pe.initial_capital = RealizedPnl

\* the stop check of the current bar closed the position by Stop Loss or
\* Take Profit and the bar's signal is about to be processed
StoppedOut ==
    /\ Backtesting
    /\ run.pc = "signal"
    /\ last.op = "check_stops"
    /\ last.ret \in {"Stop Loss", "Take Profit"}

\* C35: on a bar where the open position is closed by Stop Loss or Take
\* Profit the bar's signal is discarded: processing it opens no position and
\* leaves the ledger as the stop left it, empty for the symbol, which is how
\* the bar's equity sample finds it.
C35_StopDiscardsSignal ==
    [][ StoppedOut
        => /\ ~Held
           /\ run.current_signal = 0
           /\ SignalStep => /\ ee' = ee
                            /\ ~Held'
                            /\ last'.ret = "None" ]_vars

C35_Witness ==
    /\ run.pc = "equity"
    /\ last.op = "process_signal"
    /\ ~Held
    /\ ee.closed_trades # <<>>
    /\ LastTrade(ee).exit_reason \in StopReasons
    /\ LastTrade(ee).exit_date = Some(run.i)

\* a position has been exited and a new one has just been entered: the next
\* evaluation is the first of the new position
Reentered ==
    /\ running = "stm"
    /\ feed.position # None
    /\ last.op = "enter"
    /\ feed.verdict.should_exit
    /\ feed.verdict.symbol = feed.position[1].symbol

\* C36: the first evaluation of a position entered after an earlier position
\* in the same symbol was exited applies the stop
\* entry_price * (1 - stop_loss_pct), not a trailing stop left over from the
\* earlier position.
C36_StopNotInherited ==
    [][ (Reentered /\ last'.op = "exit_signals")
        => feed'.verdict.stop_price =
             (feed.position[1].entry_price * (StmStopDen - 1))
                \div StmStopDen ]_vars

\* the closed trades of a symbol
TradesOf(s) == {k \in DOMAIN pe.closed_trades : pe.closed_trades[k].symbol = s}

\* the successful opens of a symbol are its closed trades plus its open
\* position
OpensAccounted ==
    \A s \in Symbols :
       hist.opened[s] = Cardinality(TradesOf(s))
                          + (IF s \in DOMAIN pe.positions THEN 1 ELSE 0)

\* C37: the open_position calls that returned True number len(positions) +
\* len(closed_trades); closed_trades only grows by appending; and each
\* ClosedTrade belongs to one earlier successful open of its symbol and has
\* an exit_date not before its entry_date.
C37_TradesMatchOpens ==
    /\ [](/\ OpensAccounted
          /\ hist.opened["A"] + hist.opened["B"]
               = Cardinality(DOMAIN pe.positions) + Len(pe.closed_trades)
          /\ \A k \in DOMAIN pe.closed_trades :
                pe.closed_trades[k].exit_date
                   >= pe.closed_trades[k].entry_date)
    /\ [][ \/ pe'.closed_trades = pe.closed_trades
           \/ /\ Len(pe'.closed_trades) = Len(pe.closed_trades) + 1
              /\ SubSeq(pe'.closed_trades, 1, Len(pe.closed_trades))
                   = pe.closed_trades ]_vars

C37_Witness ==
    /\ Len(pe.closed_trades) = 1
    /\ pe.closed_trades[1].symbol \in DOMAIN pe.positions
    /\ pe.closed_trades[1].exit_date > pe.closed_trades[1].entry_date
    /\ hist.opened[pe.closed_trades[1].symbol] = 2

\* the level that the stop check closes the position at, before slippage
StopLevel(position, reason) ==
    IF reason = Some("Stop Loss") THEN position.stop_price[1]
    ELSE position.take_profit_price[1]

\* C38: every exit is priced from a level that traded within the exit bar: a
\* Stop Loss or Take Profit close has its pre-slippage exit price within
\* [bar.low, bar.high], also when the bar gaps through the stop, and signal
\* and end-of-series closes are priced from the bar's close.
C38_ExitWithinBar ==
    [][ /\ (StopsStep /\ Held /\ NewTrades # <<>>)
           => LET level == StopLevel(Position, NewTrades[1].exit_reason)
              IN  /\ NewTrades[1].exit_reason \in StopReasons
                  /\ run.bar.low <= level
                  /\ level <= run.bar.high
        /\ ((SignalStep \/ FinalStep) /\ Held /\ NewTrades # <<>>)
           => NewTrades[1].exit_price
                = Some(ExitFill(run.bar.close, Position.direction)) ]_vars

====
